---- MODULE Spec2Model ----
(***************************************************************************)
(* Arch-Sense control daemon: the shared Configuration Store behind its    *)
(* mutex, the per-connection command handlers, the fan control loop, and   *)
(* the USB keyboard lighting driver.                                       *)
(***************************************************************************)
EXTENDS Integers, Sequences, FiniteSets, TLC

\* ------------------------------------------------------------------ bounds

\* Number of client connections accepted during one run of the daemon.
NumConns == 2

\* ------------------------------------------------------- program constants

BRIGHTNESS_STEP == 10

FAN_CURVE == << <<40, 20>>, <<55, 40>>, <<70, 65>>, <<85, 100>> >>

Min(a, b) == IF a <= b THEN a ELSE b

Max(a, b) == IF a >= b THEN a ELSE b

\* ------------------------------------------------------------ fan modes

FanAuto == [tag |-> "Auto", cpu |-> 0, gpu |-> 0]

FanTurbo == [tag |-> "Turbo", cpu |-> 0, gpu |-> 0]

FanCustom(c, g) == [tag |-> "Custom", cpu |-> c, gpu |-> g]

\* The mode slot of a task that has read no mode.
NoMode == [tag |-> "none", cpu |-> 0, gpu |-> 0]

\* The "cpu,gpu" pair set_fan_mode writes to the fan_speed attribute.
FanModeValue(mode) ==
    CASE mode.tag = "Auto" -> <<0, 0>>
      [] mode.tag = "Quiet" -> <<30, 30>>
      [] mode.tag = "Balanced" -> <<50, 50>>
      [] mode.tag = "Performance" -> <<70, 70>>
      [] mode.tag = "Turbo" -> <<100, 100>>
      [] OTHER -> <<Min(mode.cpu, 100), Min(mode.gpu, 100)>>

\* ------------------------------------------------------------ fan curve

\* f32 arithmetic of the interpolation, on integers. A positive f32 is
\* <<m, k>>, the value m * 2^(-k), with a significand m of 24 bits; every
\* operation rounds to the nearest such value, ties to the even significand.

RECURSIVE DivMantissa(_, _, _, _)
\* Long division a / b carried until the quotient has 24 bits, then rounded:
\* at every step a * 2^k / b = quot + rem / b.
DivMantissa(quot, rem, b, k) ==
    IF quot >= 2^23
    THEN <<IF 2 * rem > b \/ (2 * rem = b /\ quot % 2 = 1)
           THEN quot + 1 ELSE quot, k>>
    ELSE DivMantissa(2 * quot + (IF 2 * rem >= b THEN 1 ELSE 0),
                     (2 * rem) % b, b, k + 1)

\* (a as f32) / (b as f32) for integers 0 < a < b <= 255.
F32Div(a, b) == DivMantissa(0, a, b, 0)

RECURSIVE MulShift(_, _, _)
\* The number of low bits the product hi * 2^8 + lo loses to fit 24 bits.
MulShift(hi, lo, s) ==
    IF s > 0 /\ hi * 2^(8 - s) + (lo \div 2^s) < 2^23
    THEN MulShift(hi, lo, s - 1)
    ELSE s

\* q * (n as f32) for an f32 q and an integer 1 <= n <= 255.
F32MulInt(q, n) ==
    LET hi == (q[1] \div 256) * n
        lo == (q[1] % 256) * n
        s == MulShift(hi, lo, 8)
        m == hi * 2^(8 - s) + (lo \div 2^s)
        r == IF s = 0 THEN 0 ELSE lo % 2^s
        half == IF s = 0 THEN 1 ELSE 2^(s - 1)
    IN  <<IF r > half \/ (r = half /\ m % 2 = 1) THEN m + 1 ELSE m, q[2] - s>>

RECURSIVE Log2(_)
Log2(n) == IF n <= 1 THEN 0 ELSE 1 + Log2(n \div 2)

\* ((f as f32) + p) as u8 for an integer 0 <= f <= 255 and an f32
\* 0 < p <= 255: the sum rounded to f32, truncated, saturated.
F32AddTrunc(f, p) ==
    IF p[2] >= 25 THEN f
    ELSE LET d == 2^p[2]
             base == f + (p[1] \div d)
             j == Log2(base)
             up == /\ base >= 1
                   /\ p[2] - 24 + j >= 0
                   /\ d - (p[1] % d) <= 2^(p[2] - 24 + j)
         IN  Min(IF up THEN base + 1 ELSE base, 255)

\* The interpolation taken from the upper end of the window.
InterpolatedDutyInverted(t, t1, f1, t2, f2) ==
    IF t2 - t1 <= 0 THEN f2
    ELSE f1 + (((t2 - t) * ((f2 - f1) % 256)) \div (t2 - t1))

\* f1 + ((t - t1) / temp_range) * fan_range, all in f32, cast to u8; the
\* upper duty when the two temperatures coincide. fan_range is the u8
\* difference f2 - f1.
InterpolatedDuty(t, t1, f1, t2, f2) ==
    LET temp_range == t2 - t1
        fan_range == (f2 - f1) % 256
    IN  IF temp_range <= 0 THEN f2
        ELSE IF t = t1 \/ fan_range = 0 THEN f1
        ELSE IF t = t2 THEN Min(f1 + fan_range, 255)
        ELSE F32AddTrunc(f1, F32MulInt(F32Div(t - t1, temp_range), fan_range))

RECURSIVE CurveWindow(_, _, _)
\* The first window (i, i+1) of the curve that brackets t, from index i on;
\* first.1 when none does.
CurveWindow(t, curve, i) ==
    IF i >= Len(curve) THEN curve[1][2]
    ELSE IF t >= curve[i][1] /\ t <= curve[i + 1][1]
         THEN InterpolatedDuty(t, curve[i][1], curve[i][2],
                               curve[i + 1][1], curve[i + 1][2])
         ELSE CurveWindow(t, curve, i + 1)

\* The function without its return at or above the last control point.
calculate_fan_speed_unclamped(current_temp, curve) ==
    IF Len(curve) = 0 THEN 0
    ELSE IF current_temp <= curve[1][1] THEN curve[1][2]
    ELSE CurveWindow(current_temp, curve, 1)

calculate_fan_speed(current_temp, curve) ==
    IF Len(curve) = 0 THEN 0
    ELSE IF current_temp <= curve[1][1] THEN curve[1][2]
    ELSE IF current_temp >= curve[Len(curve)][1] THEN curve[Len(curve)][2]
    ELSE CurveWindow(current_temp, curve, 1)

\* get_cpu_temp on a raw milli-degree reading that parsed as u32.
CpuTempOfRaw(milli) == (milli \div 1000) % 256

\* ---------------------------------------------------------------- state

VARIABLES
    config,      \* the in-memory DaemonConfig behind the Store mutex
    disk,        \* the DaemonConfig last written to the configuration file
    lock,        \* the task holding the Store mutex
    hw,          \* per hardware target, the value last written to it
    pc,          \* per connection, the handler's position
    cmd,         \* per connection, the decoded Command
    loc,         \* per connection, the handler's locals read from the Store
    snap,        \* per connection, GetHardwareStatus's clone of the Store
    resp,        \* per connection, the Response passed to write_response
    nresp,       \* per connection, the number of write_response calls
    bytes_read,  \* per connection, what the socket read delivered
    hw_result,   \* per connection, the Result of the handler's hardware call
    initial_config, \* the DaemonConfig loaded at startup
    pcLoop,      \* the control loop's position
    loopMode,    \* the fan mode the control loop read in this iteration
    loopTemp     \* the temperature the control loop read in this iteration

VARIABLES
    kbPc,          \* per lighting operation, its position
    kbCall,        \* per lighting operation, the function called and its arguments
    kbI,           \* per lighting operation, the transfers of its loop done so far
    kbSent,        \* per lighting operation, the USB transfers it issued, in order
    kbResult,      \* per lighting operation, the Result it returned
    kbAuto,        \* per lighting operation, whether its handle auto-detaches
    kbWasAttached, \* per lighting operation, send_usb_commands's was_attached
    usbClaim,      \* the operation whose handle holds the claim of the interface (0: none)
    kernelDriver   \* whether the kernel driver is bound to the interface

kbVars == <<kbPc, kbCall, kbI, kbSent, kbResult, kbAuto, kbWasAttached,
            usbClaim, kernelDriver>>

daemonVars == <<config, disk, lock, hw, pc, cmd, loc, snap, resp,
                nresp, bytes_read, hw_result, initial_config,
                pcLoop, loopMode, loopTemp>>

VARIABLES
    pcMain       \* main's position: startup, serving, or exited

VARIABLES
    fanCurve,    \* calculate_fan_speed: the curve argument
    fanTemp,     \* calculate_fan_speed: the current_temp argument
    fanDuty,     \* calculate_fan_speed: the duty last returned
    fanPc        \* whether the call for fanTemp has returned

VARIABLES
    platformProfile, \* the contents of the platform_profile attribute
    tpPc,        \* set_thermal_profile: its position
    tpArg,       \* set_thermal_profile: the profile argument
    tpChoices,   \* set_thermal_profile: the Result of get_thermal_profile_choices
    tpResult,    \* set_thermal_profile: the Result returned
    tpWrote,     \* whether this call wrote the platform_profile attribute
    tpBefore,    \* the contents of platform_profile when this call began
    tpCalls      \* the number of set_thermal_profile calls made

startVars == <<pcMain>>

fanVars == <<fanCurve, fanTemp, fanDuty, fanPc>>

tpVars == <<platformProfile, tpPc, tpArg, tpChoices, tpResult, tpWrote,
            tpBefore, tpCalls>>

VARIABLES
    cpuPc,       \* get_cpu_temp: its position
    cpuSample,   \* the thermal zone's reading and the text of its temp file
    cpuMilli,    \* get_cpu_temp: the parsed u32
    cpuResult    \* get_cpu_temp: the Result returned

VARIABLES
    scPc,        \* the brightness scaling of set_global_color: its position
    scArgs,      \* the channel value and the brightness argument
    scOut        \* the scaled channel

VARIABLES
    tab,         \* App.tab
    ctrl_sel,    \* App.ctrl_sel
    settings,    \* App.settings: per index, the raw value and the pending preview
    choices,     \* App.choices
    sysfs,       \* per setting, the value its attribute file holds
    lastEvent    \* the event last handled and the write_setting calls it made

VARIABLES
    rgbState     \* App.rgb

tempVars == <<cpuPc, cpuSample, cpuMilli, cpuResult>>

scaleVars == <<scPc, scArgs, scOut>>

tuiVars == <<tab, ctrl_sel, settings, choices, sysfs, lastEvent>>

rgbTabVars == <<rgbState>>

otherVars == <<tempVars, scaleVars, tuiVars, rgbTabVars>>

vars == <<daemonVars, kbVars, startVars, fanVars, tpVars, otherVars>>

Conns == 1..NumConns

\* Holders of the Store mutex.
Free == <<"free", 0>>

LoopTask == <<"loop", 0>>

ConnTask(c) == <<"conn", c>>

\* ------------------------------------------------------- configuration

DefaultConfig ==
    [fan_mode |-> FanAuto,
     battery_limiter |-> FALSE,
     rgb_mode |-> "SolidArchCyan",
     rgb_brightness |-> 100,
     fx_speed |-> 5,
     smart_battery_saver |-> FALSE,
     lcd_overdrive |-> FALSE,
     boot_animation |-> TRUE,
     usb_charging |-> 0]

\* The clone slot of a handler that has cloned nothing.
NoSnap == [DefaultConfig EXCEPT !.fan_mode = NoMode]

\* Brightness values a loaded configuration file may hold (u8).
LoadedBrightness == {0, 50, 100, 250}

LoadedFanModes == {FanAuto}

\* DaemonConfig::load: the defaults, or whatever well-formed file is there.
LoadedConfigs ==
    {[DefaultConfig EXCEPT !.fan_mode = m, !.rgb_brightness = b] :
        m \in LoadedFanModes, b \in LoadedBrightness}

\* A hardware target with the value last written to it since the daemon
\* started serving (set = FALSE: not written yet).
Written(v) == [set |-> TRUE, val |-> v]

Unwritten(v) == [set |-> FALSE, val |-> v]

InitHw ==
    [fan_speed |-> Unwritten(<<0, 0>>),
     battery_limiter |-> Unwritten(FALSE),
     battery_calibration |-> Unwritten(FALSE),
     lcd_override |-> Unwritten(FALSE),
     boot_animation_sound |-> Unwritten(FALSE),
     backlight_timeout |-> Unwritten(FALSE),
     usb_charging |-> Unwritten(0),
     keyboard |-> Unwritten(<<"none", 0, 0>>)]

\* ------------------------------------------------------------ protocol

Cmd(op, fan, flag, num, rgb) ==
    [op |-> op, fan |-> fan, flag |-> flag, num |-> num, rgb |-> rgb]

NoCmd == Cmd("none", NoMode, FALSE, 0, "none")

\* The Command values clients send.
Commands ==
    {Cmd("GetHardwareStatus", NoMode, FALSE, 0, "none")}
    \cup {Cmd("SetFanMode", m, FALSE, 0, "none") : m \in {FanAuto, FanTurbo}}
    \cup {Cmd("SetBatteryLimiter", NoMode, b, 0, "none") : b \in BOOLEAN}
    \cup {Cmd("SetBatteryCalibration", NoMode, TRUE, 0, "none")}
    \cup {Cmd("SetRgbMode", NoMode, FALSE, 0, "Wave")}
    \cup {Cmd("IncreaseRgbBrightness", NoMode, FALSE, 0, "none")}
    \cup {Cmd("DecreaseRgbBrightness", NoMode, FALSE, 0, "none")}
    \cup {Cmd("ToggleSmartBatterySaver", NoMode, FALSE, 0, "none")}
    \cup {Cmd("SetLcdOverdrive", NoMode, TRUE, 0, "none")}
    \cup {Cmd("SetBootAnimation", NoMode, FALSE, 0, "none")}
    \cup {Cmd("SetUsbCharging", NoMode, FALSE, n, "none") : n \in {10, 15}}

NoStatus ==
    [cpu_temp |-> 0, gpu_temp |-> 0, cpu_fan_percent |-> 0,
     gpu_fan_percent |-> 0, cfg |-> NoSnap]

NoResp == [kind |-> "none", msg |-> "", status |-> NoStatus]

Ack(msg) == [kind |-> "Ack", msg |-> msg, status |-> NoStatus]

Error(msg) == [kind |-> "Error", msg |-> msg, status |-> NoStatus]

HardwareStatus(st) == [kind |-> "HardwareStatus", msg |-> "", status |-> st]

NoLoc == [mode |-> "none", bright |-> 0, speed |-> 0, flag |-> FALSE]

\* ------------------------------------------------------------------ init

DaemonAt(cfg) ==
    /\ config = cfg
    /\ disk = cfg
    /\ lock = Free
    /\ hw = InitHw
    /\ pc = [c \in Conns |-> "await"]
    /\ cmd = [c \in Conns |-> NoCmd]
    /\ loc = [c \in Conns |-> NoLoc]
    /\ snap = [c \in Conns |-> NoSnap]
    /\ resp = [c \in Conns |-> NoResp]
    /\ nresp = [c \in Conns |-> 0]
    /\ bytes_read = [c \in Conns |-> "pending"]
    /\ hw_result = [c \in Conns |-> "none"]
    /\ initial_config = cfg
    /\ pcLoop = "sleep"
    /\ loopMode = NoMode
    /\ loopTemp = 0

InitDaemon == \E cfg \in LoadedConfigs : DaemonAt(cfg)

\* --------------------------------------------------- connection handlers

\* The connection task returns: its locals and the socket are dropped.
Return(c) ==
    /\ pc' = [pc EXCEPT ![c] = "closed"]
    /\ loc' = [loc EXCEPT ![c] = NoLoc]
    /\ snap' = [snap EXCEPT ![c] = NoSnap]

\* write_response, after which the connection task returns.
Respond(c, r) ==
    /\ resp' = [resp EXCEPT ![c] = r]
    /\ nresp' = [nresp EXCEPT ![c] = @ + 1]
    /\ Return(c)

\* Commands whose handler first reads the Store.
ReadsStoreFirst(op) ==
    op \in {"GetHardwareStatus", "SetRgbMode", "IncreaseRgbBrightness",
            "DecreaseRgbBrightness", "ToggleSmartBatterySaver"}

\* A zero-byte read answered like an undecodable payload.
ZeroReadDecoded(c) ==
    /\ bytes_read' = [bytes_read EXCEPT ![c] = "zero"]
    /\ Respond(c, Error("Invalid command payload"))
    /\ UNCHANGED cmd

\* bytes_read == 0: the task returns without writing anything.
ZeroRead(c) ==
    /\ bytes_read' = [bytes_read EXCEPT ![c] = "zero"]
    /\ Return(c)
    /\ UNCHANGED <<cmd, resp, nresp>>

\* A SetThermalProfile request. handle_command's match is exhaustive
\* without an arm for it, so the Command type the daemon decodes into has no
\* such variant and the payload does not decode.
ThermalProfileRequest == Cmd("SetThermalProfile", NoMode, FALSE, 0, "none")

\* The connection task: one read, then decode and dispatch.
ConnRead(c) ==
    /\ pc[c] = "await"
    /\ UNCHANGED <<config, disk, lock, hw,
                   pcLoop, loopMode, loopTemp,
                   hw_result>>
    /\ \/ /\ bytes_read' = [bytes_read EXCEPT ![c] = "error"]
          /\ Respond(c, Error("Read failed"))
          /\ UNCHANGED cmd
       \/ ZeroRead(c)
       \/ /\ bytes_read' = [bytes_read EXCEPT ![c] = "undecodable"]
          /\ Respond(c, Error("Invalid command payload"))
          /\ UNCHANGED cmd
       \/ /\ bytes_read' = [bytes_read EXCEPT ![c] = "undecodable"]
          /\ Respond(c, Error("Invalid command payload"))
          /\ cmd' = [cmd EXCEPT ![c] = ThermalProfileRequest]
       \/ \E k \in Commands :
            /\ bytes_read' = [bytes_read EXCEPT ![c] = "command"]
            /\ cmd' = [cmd EXCEPT ![c] = k]
            /\ pc' = [pc EXCEPT ![c] =
                        IF ReadsStoreFirst(k.op) THEN "lock1" ELSE "hw"]
            /\ UNCHANGED <<loc, snap, resp, nresp>>

\* The first block entered without the mutex.
StoreLockSkipped(c) ==
    /\ pc[c] = "lock1"
    /\ pc' = [pc EXCEPT ![c] = "read"]
    /\ UNCHANGED <<config, disk, lock, hw, cmd, loc, snap, resp,
                   nresp, pcLoop, loopMode, loopTemp, bytes_read, hw_result>>

\* shared_config.lock().await of the handler's first block.
StoreLock(c) ==
    /\ pc[c] = "lock1"
    /\ lock = Free
    /\ lock' = ConnTask(c)
    /\ pc' = [pc EXCEPT ![c] = "read"]
    /\ UNCHANGED <<config, disk, hw, cmd, loc, snap, resp, nresp,
                   pcLoop, loopMode, loopTemp,
                   bytes_read, hw_result>>

\* cfg.clone(), first fields of the structure.
StatusCloneFirst(c) ==
    /\ pc[c] = "read"
    /\ cmd[c].op = "GetHardwareStatus"
    /\ snap' = [snap EXCEPT ![c] =
                  [@ EXCEPT !.fan_mode = config.fan_mode,
                            !.battery_limiter = config.battery_limiter,
                            !.rgb_mode = config.rgb_mode,
                            !.rgb_brightness = config.rgb_brightness]]
    /\ pc' = [pc EXCEPT ![c] = "read2"]
    /\ UNCHANGED <<config, disk, lock, hw, cmd, loc, resp, nresp,
                   pcLoop, loopMode, loopTemp,
                   bytes_read, hw_result>>

\* cfg.clone(), remaining fields; the guard is dropped at the block's end.
StatusCloneRest(c) ==
    /\ pc[c] = "read2"
    /\ snap' = [snap EXCEPT ![c] =
                  [@ EXCEPT !.fx_speed = config.fx_speed,
                            !.smart_battery_saver = config.smart_battery_saver,
                            !.lcd_overdrive = config.lcd_overdrive,
                            !.boot_animation = config.boot_animation,
                            !.usb_charging = config.usb_charging]]
    /\ lock' = Free
    /\ pc' = [pc EXCEPT ![c] = "sensors"]
    /\ UNCHANGED <<config, disk, hw, cmd, loc, resp, nresp,
                   pcLoop, loopMode, loopTemp,
                   bytes_read, hw_result>>

\* Results of the three sensor reads of a status query.
Ok(v) == [ok |-> TRUE, val |-> v]

Err(v) == [ok |-> FALSE, val |-> v]

FanSpeedReads == {Err(<<0, 0>>), Ok(<<35, 40>>)}

CpuTempReads == {Err(0), Ok(47)}

GpuTempReads == {Err(0), Ok(61)}

UnwrapOr(r, d) == IF r.ok THEN r.val ELSE d

\* The HardwareStatus built from the sensor reads and the clone.
StatusOf(fan, cpu, gpu, cfg) ==
    [cpu_temp |-> UnwrapOr(cpu, 0),
     gpu_temp |-> UnwrapOr(gpu, 0),
     cpu_fan_percent |-> UnwrapOr(fan, <<0, 0>>)[1],
     gpu_fan_percent |-> UnwrapOr(fan, <<0, 0>>)[2],
     cfg |-> [NoSnap EXCEPT !.fan_mode = cfg.fan_mode,
                            !.rgb_mode = cfg.rgb_mode,
                            !.rgb_brightness = cfg.rgb_brightness,
                            !.fx_speed = cfg.fx_speed,
                            !.smart_battery_saver = cfg.smart_battery_saver,
                            !.battery_limiter = cfg.battery_limiter]]

\* The status query propagating a failed sensor read as Response::Error.
StatusSensorsFailFast(c) ==
    /\ pc[c] = "sensors"
    /\ \E fan \in FanSpeedReads, cpu \in CpuTempReads, gpu \in GpuTempReads :
          IF fan.ok /\ cpu.ok /\ gpu.ok
          THEN Respond(c, HardwareStatus(StatusOf(fan, cpu, gpu, snap[c])))
          ELSE Respond(c, Error("Failed to read sensor"))
    /\ UNCHANGED <<config, disk, lock, hw, cmd,
                   pcLoop, loopMode, loopTemp,
                   bytes_read, hw_result>>

\* The status query writing the fan mode it cloned back to the hardware.
StatusSensorsReapplied(c) ==
    /\ pc[c] = "sensors"
    /\ \E fan \in FanSpeedReads, cpu \in CpuTempReads, gpu \in GpuTempReads :
          Respond(c, HardwareStatus(StatusOf(fan, cpu, gpu, snap[c])))
    /\ hw' = [hw EXCEPT !.fan_speed = Written(FanModeValue(snap[c].fan_mode))]
    /\ UNCHANGED <<config, disk, lock, cmd,
                   pcLoop, loopMode, loopTemp,
                   bytes_read, hw_result>>

\* GetHardwareStatus after the clone: the live reads, then the response.
StatusSensors(c) ==
    /\ pc[c] = "sensors"
    /\ \E fan \in FanSpeedReads, cpu \in CpuTempReads, gpu \in GpuTempReads :
          Respond(c, HardwareStatus(StatusOf(fan, cpu, gpu, snap[c])))
    /\ UNCHANGED <<config, disk, lock, hw, cmd,
                   pcLoop, loopMode, loopTemp,
                   bytes_read, hw_result>>

\* The snapshot taken with the guard kept alive across the lighting call.
RgbModeSnapshotGuardKept(c) ==
    /\ pc[c] = "read"
    /\ cmd[c].op = "SetRgbMode"
    /\ loc' = [loc EXCEPT ![c] = [@ EXCEPT !.bright = config.rgb_brightness,
                                          !.speed = config.fx_speed]]
    /\ pc' = [pc EXCEPT ![c] = "hw"]
    /\ UNCHANGED <<config, disk, lock, hw, cmd, snap, resp, nresp,
                   pcLoop, loopMode, loopTemp, bytes_read, hw_result>>

\* SetRgbMode's snapshot of (rgb_brightness, fx_speed).
RgbModeSnapshot(c) ==
    /\ pc[c] = "read"
    /\ cmd[c].op = "SetRgbMode"
    /\ loc' = [loc EXCEPT ![c] = [@ EXCEPT !.bright = config.rgb_brightness,
                                          !.speed = config.fx_speed]]
    /\ lock' = Free
    /\ pc' = [pc EXCEPT ![c] = "hw"]
    /\ UNCHANGED <<config, disk, hw, cmd, snap, resp, nresp,
                   pcLoop, loopMode, loopTemp,
                   bytes_read, hw_result>>

\* The target without the cap at 100 going up.
BrightnessTargetUnclamped(current, increase) ==
    IF increase
    THEN Min(current + BRIGHTNESS_STEP, 255)
    ELSE Max(current - BRIGHTNESS_STEP, 0)

\* update_brightness's target: saturating u8 step, capped at 100 going up.
BrightnessTarget(current, increase) ==
    IF increase
    THEN Min(Min(current + BRIGHTNESS_STEP, 255), 100)
    ELSE Max(current - BRIGHTNESS_STEP, 0)

\* update_brightness without the early return for target == current.
BrightnessReadNoEarlyReturn(c) ==
    /\ pc[c] = "read"
    /\ cmd[c].op \in {"IncreaseRgbBrightness", "DecreaseRgbBrightness"}
    /\ lock' = Free
    /\ loc' = [loc EXCEPT ![c] =
                 [@ EXCEPT !.mode = config.rgb_mode,
                           !.bright = BrightnessTarget(config.rgb_brightness,
                                         cmd[c].op = "IncreaseRgbBrightness"),
                           !.speed = config.fx_speed]]
    /\ pc' = [pc EXCEPT ![c] = "hw"]
    /\ UNCHANGED <<config, disk, hw, cmd, snap, resp, nresp,
                   pcLoop, loopMode, loopTemp, bytes_read, hw_result>>

\* update_brightness up to the lighting call: read (mode, current, speed)
\* under the lock, compute the target, acknowledge at once when it equals
\* the current value.
BrightnessRead(c) ==
    /\ pc[c] = "read"
    /\ cmd[c].op \in {"IncreaseRgbBrightness", "DecreaseRgbBrightness"}
    /\ lock' = Free
    /\ LET current == config.rgb_brightness
           target == BrightnessTarget(current,
                                      cmd[c].op = "IncreaseRgbBrightness")
       IN  IF target = current
           THEN Respond(c, Ack("RGB brightness remains"))
           ELSE /\ loc' = [loc EXCEPT ![c] =
                             [@ EXCEPT !.mode = config.rgb_mode,
                                       !.bright = target,
                                       !.speed = config.fx_speed]]
                /\ pc' = [pc EXCEPT ![c] = "hw"]
                /\ UNCHANGED <<snap, resp, nresp>>
    /\ UNCHANGED <<config, disk, hw, cmd,
                   pcLoop, loopMode, loopTemp,
                   bytes_read, hw_result>>

\* ToggleSmartBatterySaver's target, read under the lock.
ToggleRead(c) ==
    /\ pc[c] = "read"
    /\ cmd[c].op = "ToggleSmartBatterySaver"
    /\ loc' = [loc EXCEPT ![c] = [@ EXCEPT !.flag = ~config.smart_battery_saver]]
    /\ lock' = Free
    /\ pc' = [pc EXCEPT ![c] = "hw"]
    /\ UNCHANGED <<config, disk, hw, cmd, snap, resp, nresp,
                   pcLoop, loopMode, loopTemp,
                   bytes_read, hw_result>>

\* The hardware target a command writes and the value it writes there.
HwTarget(k, l) ==
    CASE k.op = "SetFanMode" ->
            [attr |-> "fan_speed", val |-> FanModeValue(k.fan)]
      [] k.op = "SetBatteryLimiter" ->
            [attr |-> "battery_limiter", val |-> k.flag]
      [] k.op = "SetBatteryCalibration" ->
            [attr |-> "battery_calibration", val |-> k.flag]
      [] k.op = "SetRgbMode" ->
            [attr |-> "keyboard", val |-> <<k.rgb, l.bright, l.speed>>]
      [] k.op \in {"IncreaseRgbBrightness", "DecreaseRgbBrightness"} ->
            [attr |-> "keyboard", val |-> <<l.mode, l.bright, l.speed>>]
      [] k.op = "ToggleSmartBatterySaver" ->
            [attr |-> "backlight_timeout", val |-> l.flag]
      [] k.op = "SetLcdOverdrive" ->
            [attr |-> "lcd_override", val |-> k.flag]
      [] k.op = "SetBootAnimation" ->
            [attr |-> "boot_animation_sound", val |-> k.flag]
      [] k.op = "SetUsbCharging" ->
            [attr |-> "usb_charging", val |-> k.num]

\* The accepted thresholds with 15 let through.
UsbThresholdsWith15 == {0, 10, 15, 20, 30}

\* The thresholds set_usb_charging accepts.
UsbThresholds == {0, 10, 20, 30}

UsbThresholdError == "USB threshold must be one of 0, 10, 20, 30"

\* The error string a failed hardware call returns.
HwError(attr) == "Failed to write " \o attr

\* The Err arm taken as if it were Ok: the error is dropped and the handler
\* goes on to persist_config.
HwFailIgnored(c, msg) ==
    /\ hw_result' = [hw_result EXCEPT ![c] = "err"]
    /\ pc' = [pc EXCEPT ![c] = "lock2"]
    /\ UNCHANGED <<hw, loc, snap, resp, nresp>>

\* The Err(err) arm of a handler's match: Response::Error(err).
HwFail(c, msg) ==
    /\ hw_result' = [hw_result EXCEPT ![c] = "err"]
    /\ Respond(c, Error(msg))
    /\ UNCHANGED hw

\* The handler's hardware call: HardwareInterface::set_* or
\* KeyboardInterface::apply_mode. A failure is answered with the error; a
\* success goes on to persist_config (SetBatteryCalibration: to the Ack).
HwWrite(c) ==
    /\ pc[c] = "hw"
    /\ LET t == HwTarget(cmd[c], loc[c])
       IN  \/ /\ cmd[c].op = "SetUsbCharging"
              /\ cmd[c].num \notin UsbThresholds
              /\ HwFail(c, UsbThresholdError)
           \/ /\ cmd[c].op = "SetUsbCharging" => cmd[c].num \in UsbThresholds
              /\ HwFail(c, HwError(t.attr))
           \/ /\ cmd[c].op = "SetUsbCharging" => cmd[c].num \in UsbThresholds
              /\ hw_result' = [hw_result EXCEPT ![c] = "ok"]
              /\ hw' = [hw EXCEPT ![t.attr] = Written(t.val)]
              /\ IF cmd[c].op = "SetBatteryCalibration"
                 THEN Respond(c, Ack("Battery calibration set"))
                 ELSE /\ pc' = [pc EXCEPT ![c] = "lock2"]
                      /\ UNCHANGED <<loc, snap, resp, nresp>>
    /\ UNCHANGED <<config, disk, lock, cmd, pcLoop, loopMode, loopTemp,
                   bytes_read>>

\* persist_config: shared_config.lock().await.
PersistLock(c) ==
    /\ pc[c] = "lock2"
    /\ lock = Free
    /\ lock' = ConnTask(c)
    /\ pc' = [pc EXCEPT ![c] = "persist"]
    /\ UNCHANGED <<config, disk, hw, cmd, loc, snap, resp, nresp,
                   pcLoop, loopMode, loopTemp,
                   bytes_read, hw_result>>

\* The closure a handler passes to persist_config.
Mutate(cfg, k, l) ==
    CASE k.op = "SetFanMode" -> [cfg EXCEPT !.fan_mode = k.fan]
      [] k.op = "SetBatteryLimiter" -> [cfg EXCEPT !.battery_limiter = k.flag]
      [] k.op = "SetRgbMode" -> [cfg EXCEPT !.rgb_mode = k.rgb]
      [] k.op \in {"IncreaseRgbBrightness", "DecreaseRgbBrightness"} ->
            [cfg EXCEPT !.rgb_brightness = l.bright]
      [] k.op = "ToggleSmartBatterySaver" ->
            [cfg EXCEPT !.smart_battery_saver = l.flag]
      [] k.op = "SetLcdOverdrive" -> [cfg EXCEPT !.lcd_overdrive = k.flag]
      [] k.op = "SetBootAnimation" -> [cfg EXCEPT !.boot_animation = k.flag]
      [] k.op = "SetUsbCharging" -> [cfg EXCEPT !.usb_charging = k.num]

\* persist_config returning with the guard still held.
PersistConfigGuardHeld(c) ==
    /\ pc[c] = "persist"
    /\ config' = Mutate(config, cmd[c], loc[c])
    /\ \E saved \in BOOLEAN : disk' = IF saved THEN config' ELSE disk
    /\ lock' = lock
    /\ Respond(c, Ack(cmd[c].op))
    /\ UNCHANGED <<hw, cmd, pcLoop, loopMode, loopTemp,
                   bytes_read, hw_result>>

\* persist_config under the lock: mutate, save (whose failure is dropped),
\* release at return; then the handler's Ack.
PersistConfig(c) ==
    /\ pc[c] = "persist"
    /\ config' = Mutate(config, cmd[c], loc[c])
    /\ \E saved \in BOOLEAN : disk' = IF saved THEN config' ELSE disk
    /\ lock' = Free
    /\ Respond(c, Ack(cmd[c].op))
    /\ UNCHANGED <<hw, cmd, pcLoop, loopMode, loopTemp,
                   bytes_read, hw_result>>

\* ------------------------------------------------------- control loop

\* Raw milli-degree contents of the thermal zone file.
RawCpuTemps == {47500, 90000}

\* After the 2 s sleep: config_for_worker.lock().await.
LoopLock ==
    /\ pcLoop = "sleep"
    /\ lock = Free
    /\ lock' = LoopTask
    /\ pcLoop' = "locked"
    /\ UNCHANGED <<config, disk, hw, pc, cmd, loc, snap, resp, nresp,
                   loopMode, loopTemp,
                   bytes_read, hw_result>>

\* The iteration going on to the fan write whatever mode it read.
LoopReadModeUnchecked ==
    /\ pcLoop = "locked"
    /\ lock' = Free
    /\ loopMode' = config.fan_mode
    /\ pcLoop' = "temp"
    /\ UNCHANGED <<config, disk, hw, pc, cmd, loc, snap, resp, nresp,
                   loopTemp, bytes_read, hw_result>>

\* lock.fan_mode.clone(), the guard dropped; a mode other than Auto ends
\* the iteration.
LoopReadMode ==
    /\ pcLoop = "locked"
    /\ lock' = Free
    /\ IF config.fan_mode.tag = "Auto"
       THEN /\ loopMode' = config.fan_mode
            /\ pcLoop' = "temp"
       ELSE /\ loopMode' = NoMode
            /\ pcLoop' = "sleep"
    /\ UNCHANGED <<config, disk, hw, pc, cmd, loc, snap, resp, nresp,
                   loopTemp,
                   bytes_read, hw_result>>

\* get_cpu_temp; its failure ends the iteration.
LoopReadTemp ==
    /\ pcLoop = "temp"
    /\ \/ /\ pcLoop' = "sleep"
          /\ loopMode' = NoMode
          /\ UNCHANGED loopTemp
       \/ \E raw \in RawCpuTemps :
            /\ loopTemp' = CpuTempOfRaw(raw)
            /\ pcLoop' = "write"
            /\ UNCHANGED loopMode
    /\ UNCHANGED <<config, disk, lock, hw, pc, cmd, loc, snap, resp,
                   nresp,
                   bytes_read, hw_result>>

\* The fan write after which the iteration measures and writes again
\* without reading the mode.
LoopWriteFanRepeating ==
    /\ pcLoop = "write"
    /\ LET target_speed == calculate_fan_speed(loopTemp, FAN_CURVE)
       IN  hw' = [hw EXCEPT !.fan_speed =
                    Written(FanModeValue(FanCustom(target_speed,
                                                   target_speed)))]
    /\ pcLoop' = "temp"
    /\ UNCHANGED <<loopMode, loopTemp>>
    /\ UNCHANGED <<config, disk, lock, pc, cmd, loc, snap, resp, nresp,
                   bytes_read, hw_result>>

\* The fan write that also records the duty as the Store's fan mode.
LoopWriteFanStored ==
    /\ pcLoop = "write"
    /\ LET target_speed == calculate_fan_speed(loopTemp, FAN_CURVE)
       IN  /\ hw' = [hw EXCEPT !.fan_speed =
                       Written(FanModeValue(FanCustom(target_speed,
                                                      target_speed)))]
           /\ config' = [config EXCEPT !.fan_mode =
                           FanCustom(target_speed, target_speed)]
    /\ pcLoop' = "sleep"
    /\ loopMode' = NoMode
    /\ loopTemp' = 0
    /\ UNCHANGED <<disk, lock, pc, cmd, loc, snap, resp, nresp,
                   bytes_read, hw_result>>

\* The fan write made only while the Store is free and still says Auto.
LoopWriteFanOrdered ==
    /\ pcLoop = "write"
    /\ lock = Free
    /\ config.fan_mode.tag = "Auto"
    /\ LET target_speed == calculate_fan_speed(loopTemp, FAN_CURVE)
       IN  \/ UNCHANGED hw
           \/ hw' = [hw EXCEPT !.fan_speed =
                       Written(FanModeValue(FanCustom(target_speed,
                                                      target_speed)))]
    /\ pcLoop' = "sleep"
    /\ loopMode' = NoMode
    /\ loopTemp' = 0
    /\ UNCHANGED <<config, disk, lock, pc, cmd, loc, snap, resp, nresp,
                   bytes_read, hw_result>>

\* set_fan_mode(Custom(target_speed, target_speed)), its result dropped.
LoopWriteFan ==
    /\ pcLoop = "write"
    /\ LET target_speed == calculate_fan_speed(loopTemp, FAN_CURVE)
       IN  \/ UNCHANGED hw
           \/ hw' = [hw EXCEPT !.fan_speed =
                       Written(FanModeValue(FanCustom(target_speed,
                                                      target_speed)))]
    /\ pcLoop' = "sleep"
    /\ loopMode' = NoMode
    /\ loopTemp' = 0
    /\ UNCHANGED <<config, disk, lock, pc, cmd, loc, snap, resp, nresp,
                   bytes_read, hw_result>>

\* --------------------------------------------------- lighting driver

\* Number of lighting operations started during one run.
NumKbOps == 2

KbOps == 1..NumKbOps

\* color_data is 1024 bytes, written in chunks of 64.
ColorDataLen == 1024

ChunkLen == 64

NumChunks == ColorDataLen \div ChunkLen

SupportedEffects ==
    {"neon", "wave", "breath", "rainbow", "reactive", "ripple", "starlight",
     "rain", "fire", "aurora"}

\* Effect names callers pass to set_animation.
EffectNames == {"wave", "Neon", "plasma"}

\* to_ascii_lowercase on the effect names above.
ToAsciiLowercase(e) == IF e = "Neon" THEN "neon" ELSE e

\* The (effect_code, direction) of effect_payload's match.
EffectCode(effect) ==
    CASE effect = "neon" -> <<8, 1>>
      [] effect = "wave" -> <<3, 2>>
      [] effect = "breath" -> <<2, 1>>
      [] effect = "rainbow" -> <<4, 1>>
      [] effect = "reactive" -> <<5, 1>>
      [] effect = "ripple" -> <<6, 1>>
      [] effect = "starlight" -> <<7, 1>>
      [] effect = "rain" -> <<9, 1>>
      [] effect = "fire" -> <<10, 1>>
      [] effect = "aurora" -> <<11, 1>>
      [] OTHER -> <<0, 0>>

\* effect_payload: the apply packet, or an error for an unknown effect.
effect_payload(effect, speed, brightness) ==
    IF EffectCode(effect) = <<0, 0>>
    THEN Err(<<>>)
    ELSE Ok(<<8, 2, EffectCode(effect)[1], 1, brightness, speed,
              EffectCode(effect)[2], 155>>)

KbCallOf(fn, effect, speed, brightness, ncmds) ==
    [fn |-> fn, effect |-> effect, speed |-> speed, brightness |-> brightness,
     ncmds |-> ncmds]

NoKbCall == KbCallOf("none", "", 0, 0, 0)

\* The calls made: a solid colour, an animation, the dashboard's packet list
\* (preamble, effect packet and, with a colour, the colour packet).
KbCalls ==
    {KbCallOf("set_global_color", "", 0, 100, 0)}
    \cup {KbCallOf("set_animation", e, 5, 100, 0) : e \in EffectNames}
    \cup {KbCallOf("send_usb_commands", "", 0, 0, n) : n \in {2, 3}}

InitLighting ==
    /\ kbPc = [o \in KbOps |-> "idle"]
    /\ kbCall = [o \in KbOps |-> NoKbCall]
    /\ kbI = [o \in KbOps |-> 0]
    /\ kbSent = [o \in KbOps |-> <<>>]
    /\ kbResult = [o \in KbOps |-> "none"]
    /\ kbAuto = [o \in KbOps |-> FALSE]
    /\ kbWasAttached = [o \in KbOps |-> FALSE]
    /\ usbClaim = 0
    /\ kernelDriver \in {"attached", "detached"}

\* The device handle going out of scope without its claim being released.
DropHandleLeaked(o) ==
    UNCHANGED <<usbClaim, kernelDriver>>

\* The device handle goes out of scope at a return: a claim it still holds
\* is released, and an auto-detaching handle lets the kernel driver back.
DropHandle(o) ==
    IF usbClaim = o
    THEN /\ usbClaim' = 0
         /\ kernelDriver' = IF kbAuto[o] THEN "attached" ELSE kernelDriver
    ELSE UNCHANGED <<usbClaim, kernelDriver>>

\* A return of the operation with result r.
KbReturn(o, r) ==
    /\ kbPc' = [kbPc EXCEPT ![o] = "returned"]
    /\ kbResult' = [kbResult EXCEPT ![o] = r]
    /\ DropHandle(o)

\* A lighting operation is called.
KbBegin(o) ==
    /\ kbPc[o] = "idle"
    /\ \E k \in KbCalls : kbCall' = [kbCall EXCEPT ![o] = k]
    /\ kbPc' = [kbPc EXCEPT ![o] = "open"]
    /\ UNCHANGED <<kbI, kbSent, kbResult, kbAuto, kbWasAttached, usbClaim,
                   kernelDriver>>

\* open_device_with_vid_pid, then set_auto_detach_kernel_driver(true) whose
\* result is dropped (keyboard.rs) or kernel_driver_active().unwrap_or(false)
\* (send_usb_commands).
KbOpen(o) ==
    /\ kbPc[o] = "open"
    /\ \/ /\ KbReturn(o, "device not found")
          /\ UNCHANGED <<kbAuto, kbWasAttached>>
       \/ /\ kbCall[o].fn # "send_usb_commands"
          /\ \E auto \in BOOLEAN : kbAuto' = [kbAuto EXCEPT ![o] = auto]
          /\ kbPc' = [kbPc EXCEPT ![o] = "claim"]
          /\ UNCHANGED <<kbWasAttached, kbResult, usbClaim, kernelDriver>>
       \/ /\ kbCall[o].fn = "send_usb_commands"
          /\ \E was \in {kernelDriver = "attached", FALSE} :
                /\ kbWasAttached' = [kbWasAttached EXCEPT ![o] = was]
                /\ kbPc' = [kbPc EXCEPT ![o] = IF was THEN "detach" ELSE "claim"]
          /\ UNCHANGED <<kbAuto, kbResult, usbClaim, kernelDriver>>
    /\ UNCHANGED <<kbCall, kbI, kbSent>>

\* send_usb_commands: detach_kernel_driver when was_attached.
KbDetach(o) ==
    /\ kbPc[o] = "detach"
    /\ \/ /\ KbReturn(o, "Failed to detach kernel driver from interface 3")
       \/ /\ kernelDriver' = "detached"
          /\ kbPc' = [kbPc EXCEPT ![o] = "claim"]
          /\ UNCHANGED <<kbResult, usbClaim>>
    /\ UNCHANGED <<kbCall, kbI, kbSent, kbAuto, kbWasAttached>>

\* The position after a successful claim.
AfterClaim(fn) == IF fn = "send_usb_commands" THEN "cmds" ELSE "init"

\* claim_interface succeeding although another handle holds the claim.
KbClaimUnchecked(o) ==
    /\ kbPc[o] = "claim"
    /\ \/ /\ KbReturn(o, IF kbCall[o].fn = "send_usb_commands"
                        THEN "Failed to claim USB interface 3"
                        ELSE "USB claim failed")
       \/ /\ kernelDriver = "detached" \/ kbAuto[o]
          /\ usbClaim' = o
          /\ kernelDriver' = "detached"
          /\ kbPc' = [kbPc EXCEPT ![o] = AfterClaim(kbCall[o].fn)]
          /\ UNCHANGED kbResult
    /\ UNCHANGED <<kbCall, kbI, kbSent, kbAuto, kbWasAttached>>

\* claim_interface: it can succeed only while no other handle holds the
\* claim and the kernel driver is out of the way (detached, or detached by
\* the claim itself on an auto-detaching handle).
KbClaim(o) ==
    /\ kbPc[o] = "claim"
    /\ \/ /\ KbReturn(o, IF kbCall[o].fn = "send_usb_commands"
                        THEN "Failed to claim USB interface 3"
                        ELSE "USB claim failed")
       \/ /\ usbClaim = 0
          /\ kernelDriver = "detached" \/ kbAuto[o]
          /\ usbClaim' = o
          /\ kernelDriver' = "detached"
          /\ kbPc' = [kbPc EXCEPT ![o] = AfterClaim(kbCall[o].fn)]
          /\ UNCHANGED kbResult
    /\ UNCHANGED <<kbCall, kbI, kbSent, kbAuto, kbWasAttached>>

\* A transfer whose failure is dropped: the operation moves on without it.
KbTransferUnchecked(o, t, failure, nextPc, nextI) ==
    /\ \E sent \in BOOLEAN :
          kbSent' = [kbSent EXCEPT ![o] = IF sent THEN Append(@, t) ELSE @]
    /\ kbPc' = [kbPc EXCEPT ![o] = nextPc]
    /\ kbI' = [kbI EXCEPT ![o] = nextI]
    /\ UNCHANGED <<kbResult, usbClaim, kernelDriver>>

\* One transfer of the operation: it fails, and the operation returns the
\* error, or it is issued and the operation moves on.
KbTransfer(o, t, failure, nextPc, nextI) ==
    \/ /\ KbReturn(o, failure)
       /\ UNCHANGED <<kbI, kbSent>>
    \/ /\ kbSent' = [kbSent EXCEPT ![o] = Append(@, t)]
       /\ kbPc' = [kbPc EXCEPT ![o] = nextPc]
       /\ kbI' = [kbI EXCEPT ![o] = nextI]
       /\ UNCHANGED <<kbResult, usbClaim, kernelDriver>>

ColorInit == <<18, 0, 0, 8, 0, 0, 0, 229>>

ColorApply == <<8, 2, 51, 5, 50, 8, 1, 130>>

AnimationInit == <<177, 0, 0, 0, 0, 0, 0, 78>>

\* The initialization control packet of set_global_color and set_animation.
KbInit(o) ==
    /\ kbPc[o] = "init"
    /\ IF kbCall[o].fn = "set_global_color"
       THEN KbTransfer(o, <<"control", ColorInit>>,
                       "USB control write failed", "chunks", 0)
       ELSE KbTransfer(o, <<"control", AnimationInit>>,
                       "USB control write failed", "payload", 0)
    /\ UNCHANGED <<kbCall, kbAuto, kbWasAttached>>

\* set_global_color: the colour buffer, one 64-byte interrupt chunk a step.
KbChunk(o) ==
    /\ kbPc[o] = "chunks"
    /\ KbTransfer(o, <<"interrupt", <<kbI[o] + 1>>>>,
                  "USB interrupt write failed",
                  IF kbI[o] + 1 = NumChunks THEN "apply" ELSE "chunks",
                  kbI[o] + 1)
    /\ UNCHANGED <<kbCall, kbAuto, kbWasAttached>>

\* set_animation: effect_payload on the lowercased name and the clamped
\* speed and brightness, then the apply control packet.
KbAnimationApply(o) ==
    /\ kbPc[o] = "payload"
    /\ LET p == effect_payload(ToAsciiLowercase(kbCall[o].effect),
                               Max(1, Min(kbCall[o].speed, 10)),
                               Min(kbCall[o].brightness, 100))
       IN  IF p.ok
           THEN KbTransfer(o, <<"control", p.val>>,
                           "USB control write failed", "release", 0)
           ELSE /\ KbReturn(o, "Unknown animation")
                /\ UNCHANGED <<kbI, kbSent>>
    /\ UNCHANGED <<kbCall, kbAuto, kbWasAttached>>

\* set_global_color: the apply control packet.
KbColorApply(o) ==
    /\ kbPc[o] = "apply"
    /\ KbTransfer(o, <<"control", ColorApply>>,
                  "USB control write failed", "release", 0)
    /\ UNCHANGED <<kbCall, kbAuto, kbWasAttached>>

\* send_usb_commands: clear_halt, its result dropped, then one control
\* transfer for each command.
KbCommand(o) ==
    /\ kbPc[o] = "cmds"
    /\ KbTransfer(o, <<"control", <<kbI[o] + 1>>>>,
                  "USB control transfer failed",
                  IF kbI[o] + 1 = kbCall[o].ncmds THEN "release" ELSE "cmds",
                  kbI[o] + 1)
    /\ UNCHANGED <<kbCall, kbAuto, kbWasAttached>>

\* release_interface after the last transfer. keyboard.rs drops its result
\* and returns Ok; send_usb_commands returns its error, and otherwise
\* re-attaches the kernel driver when was_attached (result dropped) and
\* returns Ok.
KbRelease(o) ==
    /\ kbPc[o] = "release"
    /\ \/ /\ KbReturn(o, IF kbCall[o].fn = "send_usb_commands"
                        THEN "Failed to release USB interface" ELSE "ok")
       \/ /\ kbPc' = [kbPc EXCEPT ![o] = "returned"]
          /\ kbResult' = [kbResult EXCEPT ![o] = "ok"]
          /\ usbClaim' = 0
          /\ \E attached \in BOOLEAN :
                kernelDriver' =
                    IF kbAuto[o] \/ (kbWasAttached[o] /\ attached)
                    THEN "attached" ELSE kernelDriver
    /\ UNCHANGED <<kbCall, kbI, kbSent, kbAuto, kbWasAttached>>

KbStep(o) ==
    \/ KbBegin(o)
    \/ KbOpen(o)
    \/ KbDetach(o)
    \/ KbClaim(o)
    \/ KbInit(o)
    \/ KbChunk(o)
    \/ KbAnimationApply(o)
    \/ KbColorApply(o)
    \/ KbCommand(o)
    \/ KbRelease(o)

\* ------------------------------------------------------------ startup

\* main has reached its accept loop.
Serving == pcMain = "serving"

\* The hardware calls of apply_saved_state, in order: the Configuration
\* field applied and the hardware target written.
StartupCalls ==
    <<<<"battery_limiter", "battery_limiter">>,
      <<"lcd_overdrive", "lcd_override">>,
      <<"boot_animation", "boot_animation_sound">>,
      <<"smart_battery_saver", "backlight_timeout">>,
      <<"usb_charging", "usb_charging">>,
      <<"rgb_mode", "keyboard">>>>

\* The value apply_saved_state passes to its i-th call.
StartupValue(cfg, i) ==
    IF StartupCalls[i][2] = "keyboard"
    THEN <<cfg.rgb_mode, cfg.rgb_brightness, cfg.fx_speed>>
    ELSE cfg[StartupCalls[i][1]]

\* The hardware if apply_saved_state went on past its failed call k + 1.
AppliedStateSkipping(h, cfg, k) ==
    [a \in DOMAIN h |->
        IF \E i \in 1..Len(StartupCalls) :
              i # k + 1 /\ StartupCalls[i][2] = a
        THEN LET i == CHOOSE j \in 1..Len(StartupCalls) :
                          StartupCalls[j][2] = a
             IN  Written(StartupValue(cfg, i))
        ELSE h[a]]

\* The hardware after the first k calls of apply_saved_state succeeded.
AppliedState(h, cfg, k) ==
    [a \in DOMAIN h |->
        IF \E i \in 1..k : StartupCalls[i][2] = a
        THEN LET i == CHOOSE j \in 1..k : StartupCalls[j][2] = a
             IN  Written(StartupValue(cfg, i))
        ELSE h[a]]

\* apply_saved_state: the calls are chained with `?`, so the first failure
\* ends it; main prints the error and goes on to spawn the control loop.
StartApply ==
    /\ pcMain = "apply"
    /\ \E k \in 0..Len(StartupCalls) : hw' = AppliedState(hw, initial_config, k)
    /\ pcMain' = "bind"

\* UnixListener::bind: its failure is printed and main returns.
StartBind ==
    /\ pcMain = "bind"
    /\ pcMain' \in {"perms", "exited: bind failed"}
    /\ UNCHANGED hw

\* fs::set_permissions on the socket: its failure is printed and main
\* returns.
StartPerms ==
    /\ pcMain = "perms"
    /\ pcMain' \in {"serving", "exited: set_permissions failed"}
    /\ UNCHANGED hw

\* listener.accept() failing: the error is printed and the loop goes on.
AcceptError ==
    /\ pcMain = "serving"
    /\ UNCHANGED <<pcMain, hw>>

MainStep ==
    /\ \/ StartApply
       \/ StartBind
       \/ StartPerms
       \/ AcceptError
    /\ UNCHANGED <<config, disk, lock, pc, cmd, loc, snap, resp, nresp,
                   bytes_read, hw_result, initial_config,
                   pcLoop, loopMode, loopTemp>>

\* main has returned: the runtime is dropped and every task with it.
Exited == pcMain \in {"exited: bind failed", "exited: set_permissions failed"}

\* ---------------------------------------------------- fan curve calls

MaxCurveLen == 3

MaxTemp == 255

\* Control-point temperatures and duties of the curves passed in.
CurveTemps == {40, 52, 71, 90}

CurveDuties == {20, 128, 223}

\* Curves sorted by temperature with duties that do not decrease; two
\* consecutive points may share a temperature.
SortedCurves ==
    {curve \in UNION {[1..n -> CurveTemps \X CurveDuties] : n \in 1..MaxCurveLen} :
        \A i \in 1..(Len(curve) - 1) :
            /\ curve[i][1] <= curve[i + 1][1]
            /\ curve[i][2] <= curve[i + 1][2]}

Curves == SortedCurves \cup {FAN_CURVE}

FanIdle ==
    /\ fanCurve = FAN_CURVE
    /\ fanTemp = 0
    /\ fanDuty = 0
    /\ fanPc = "idle"

InitCurve ==
    /\ fanCurve \in Curves
    /\ fanTemp = 0
    /\ fanDuty = 0
    /\ fanPc = "call"

\* calculate_fan_speed(fanTemp, fanCurve) returns.
FanCompute ==
    /\ fanPc = "call"
    /\ fanDuty' = calculate_fan_speed(fanTemp, fanCurve)
    /\ fanPc' = "done"
    /\ UNCHANGED <<fanCurve, fanTemp>>

\* The next call is made one degree higher; fanDuty keeps the duty returned
\* for the temperature below.
FanNextTemp ==
    /\ fanPc = "done"
    /\ fanTemp < MaxTemp
    /\ fanTemp' = fanTemp + 1
    /\ fanPc' = "call"
    /\ UNCHANGED <<fanCurve, fanDuty>>

\* ------------------------------------------------------ thermal profile

NumProfileCalls == 2

\* Strings are sequences of characters.
IsSpace(ch) == ch \in {" ", "\n", "\t"}

\* str::trim_start_matches for a set of characters.
TrimStartOf(str, chars) ==
    IF \A i \in 1..Len(str) : str[i] \in chars THEN <<>>
    ELSE SubSeq(str,
                CHOOSE i \in 1..Len(str) :
                    /\ str[i] \notin chars
                    /\ \A j \in 1..(i - 1) : str[j] \in chars,
                Len(str))

\* str::trim_end_matches for a set of characters.
TrimEndOf(str, chars) ==
    IF \A i \in 1..Len(str) : str[i] \in chars THEN <<>>
    ELSE SubSeq(str, 1,
                CHOOSE i \in 1..Len(str) :
                    /\ str[i] \notin chars
                    /\ \A j \in (i + 1)..Len(str) : str[j] \in chars)

\* str::trim.
Trim(str) == TrimEndOf(TrimStartOf(str, {" ", "\n", "\t"}), {" ", "\n", "\t"})

\* The length of the first word of a string that starts with one.
WordLen(str) ==
    IF \E i \in 1..Len(str) : IsSpace(str[i])
    THEN (CHOOSE i \in 1..Len(str) :
              /\ IsSpace(str[i])
              /\ \A j \in 1..(i - 1) : ~IsSpace(str[j])) - 1
    ELSE Len(str)

RECURSIVE SplitWhitespace(_)
\* str::split_whitespace.
SplitWhitespace(str) ==
    LET rest == TrimStartOf(str, {" ", "\n", "\t"})
    IN  IF rest = <<>> THEN <<>>
        ELSE <<SubSeq(rest, 1, WordLen(rest))>>
             \o SplitWhitespace(SubSeq(rest, WordLen(rest) + 1, Len(rest)))

\* One entry of the choice list: trimmed, leading '[' and trailing ']'
\* removed.
ChoiceEntry(entry) == TrimEndOf(TrimStartOf(Trim(entry), {"["}), {"]"})

\* get_thermal_profile_choices on the contents of the choices attribute.
ParseChoices(raw) ==
    LET words == SplitWhitespace(raw)
    IN  SelectSeq([i \in 1..Len(words) |-> ChoiceEntry(words[i])],
                  LAMBDA entry : entry # <<>>)

Cool == <<"c", "o", "o", "l">>

Quiet == <<"q", "u", "i", "e", "t">>

Perf == <<"p", "e", "r", "f">>

\* The profile arguments of the calls.
ProfileArgs ==
    {<<>>, <<" ", "\n">>, Cool, <<" ">> \o Cool \o <<"\n">>, Quiet,
     <<"[">> \o Quiet \o <<"]">>, Perf, Cool \o <<" ">> \o Quiet}

\* What reading the choices attribute gives: an error, or its contents.
ChoiceReads ==
    {Err(<<>>),
     Ok(Cool \o <<" ">> \o Quiet \o <<"\n">>),
     Ok(<<"[">> \o Quiet \o <<"]", " ", " ">> \o Perf \o <<"\n">>)}

NoChoices == Err(<<>>)

ThermalIdle ==
    /\ platformProfile = Quiet \o <<"\n">>
    /\ tpPc = "idle"
    /\ tpArg = <<>>
    /\ tpChoices = NoChoices
    /\ tpResult = "none"
    /\ tpWrote = FALSE
    /\ tpBefore = Quiet \o <<"\n">>
    /\ tpCalls = 0

\* set_thermal_profile returns r.
ThermalReturn(r) ==
    /\ tpResult' = r
    /\ tpPc' = "returned"

\* set_thermal_profile is called.
ThermalCall ==
    /\ tpPc \in {"idle", "returned"}
    /\ tpCalls < NumProfileCalls
    /\ tpCalls' = tpCalls + 1
    /\ \E arg \in ProfileArgs : tpArg' = arg
    /\ tpPc' = "entry"
    /\ tpChoices' = NoChoices
    /\ tpResult' = "none"
    /\ tpWrote' = FALSE
    /\ tpBefore' = platformProfile
    /\ UNCHANGED platformProfile

\* profile.trim() and the empty check.
ThermalTrim ==
    /\ tpPc = "entry"
    /\ IF Trim(tpArg) = <<>>
       THEN ThermalReturn("Thermal profile must not be empty")
       ELSE /\ tpPc' = "choices"
            /\ UNCHANGED tpResult
    /\ UNCHANGED <<platformProfile, tpArg, tpChoices, tpWrote, tpBefore,
                   tpCalls>>

\* The choice list read and the name written without looking it up.
ThermalChoicesUnvalidated ==
    /\ tpPc = "choices"
    /\ \E r \in ChoiceReads :
          IF ~r.ok
          THEN /\ ThermalReturn("Failed to read thermal profile choices")
               /\ UNCHANGED tpChoices
          ELSE /\ tpChoices' = Ok(ParseChoices(r.val))
               /\ tpPc' = "write"
               /\ UNCHANGED tpResult
    /\ UNCHANGED <<platformProfile, tpArg, tpWrote, tpBefore, tpCalls>>

\* get_thermal_profile_choices().await?, then the membership test.
ThermalChoices ==
    /\ tpPc = "choices"
    /\ \E r \in ChoiceReads :
          IF ~r.ok
          THEN /\ ThermalReturn("Failed to read thermal profile choices")
               /\ UNCHANGED tpChoices
          ELSE /\ tpChoices' = Ok(ParseChoices(r.val))
               /\ IF \E i \in 1..Len(ParseChoices(r.val)) :
                        ParseChoices(r.val)[i] = Trim(tpArg)
                  THEN /\ tpPc' = "write"
                       /\ UNCHANGED tpResult
                  ELSE ThermalReturn("Unsupported thermal profile")
    /\ UNCHANGED <<platformProfile, tpArg, tpWrote, tpBefore, tpCalls>>

\* fs::write(PLATFORM_PROFILE_PATH, format!("{profile}\n")).
ThermalWrite ==
    /\ tpPc = "write"
    /\ \/ /\ platformProfile' = Trim(tpArg) \o <<"\n">>
          /\ tpWrote' = TRUE
          /\ ThermalReturn("ok")
       \/ /\ ThermalReturn("Failed to set thermal profile")
          /\ UNCHANGED <<platformProfile, tpWrote>>
    /\ UNCHANGED <<tpArg, tpChoices, tpBefore, tpCalls>>

\* ------------------------------------------------------- specification

ConnStep(c) ==
    \/ ConnRead(c)
    \/ StoreLock(c)
    \/ StatusCloneFirst(c)
    \/ StatusCloneRest(c)
    \/ StatusSensors(c)
    \/ RgbModeSnapshot(c)
    \/ BrightnessRead(c)
    \/ ToggleRead(c)
    \/ HwWrite(c)
    \/ PersistLock(c)
    \/ PersistConfig(c)

LoopStep ==
    \/ LoopLock
    \/ LoopReadMode
    \/ LoopReadTemp
    \/ LoopWriteFan

\* The lighting driver at rest.
LightingIdle ==
    /\ kbPc = [o \in KbOps |-> "idle"]
    /\ kbCall = [o \in KbOps |-> NoKbCall]
    /\ kbI = [o \in KbOps |-> 0]
    /\ kbSent = [o \in KbOps |-> <<>>]
    /\ kbResult = [o \in KbOps |-> "none"]
    /\ kbAuto = [o \in KbOps |-> FALSE]
    /\ kbWasAttached = [o \in KbOps |-> FALSE]
    /\ usbClaim = 0
    /\ kernelDriver = "attached"

\* ------------------------------------------------------- get_cpu_temp

DigitChars == <<"0", "1", "2", "3", "4", "5", "6", "7", "8", "9">>

IsDigit(ch) == \E d \in 1..Len(DigitChars) : DigitChars[d] = ch

DigitValue(ch) == (CHOOSE d \in 1..Len(DigitChars) : DigitChars[d] = ch) - 1

\* The decimal numeral of n, as the thermal zone prints it.
RECURSIVE Decimal(_)
Decimal(n) ==
    IF n < Len(DigitChars)
    THEN <<DigitChars[n + 1]>>
    ELSE Decimal(n \div Len(DigitChars))
             \o <<DigitChars[(n % Len(DigitChars)) + 1]>>

RECURSIVE DigitsValue(_)
DigitsValue(ds) ==
    IF ds = <<>>
    THEN 0
    ELSE DigitsValue(SubSeq(ds, 1, Len(ds) - 1)) * Len(DigitChars)
             + DigitValue(ds[Len(ds)])

\* u32::MAX, digit by digit.
U32MaxDigits == <<"4", "2", "9", "4", "9", "6", "7", "2", "9", "5">>

\* Whether the numeral a, as long as b, denotes a number above b's.
NumeralAbove(a, b) ==
    \E i \in 1..Len(a) :
        /\ \A j \in 1..(i - 1) : a[j] = b[j]
        /\ DigitValue(a[i]) > DigitValue(b[i])

\* Whether accumulating the digits ds overflows a u32.
ExceedsU32(ds) ==
    LET sig == TrimStartOf(ds, {"0"})
    IN  \/ Len(sig) > Len(U32MaxDigits)
        \/ Len(sig) = Len(U32MaxDigits) /\ NumeralAbove(sig, U32MaxDigits)

\* str::parse::<u32>: an optional "+", then one digit or more, the value
\* within u32. The error is Err(0) whatever its kind.
ParseU32(str) ==
    LET ds == IF str # <<>> /\ str[1] = "+" THEN Tail(str) ELSE str
    IN  IF \/ ds = <<>>
           \/ \E i \in 1..Len(ds) : ~IsDigit(ds[i])
           \/ ExceedsU32(ds)
        THEN Err(0)
        ELSE Ok(DigitsValue(ds))

\* The reading of a temp file whose text is no milli-degree reading.
NoReading == -1

\* Milli-degree readings: around each whole degree boundary, around the top
\* of a byte, a spread of ordinary and of large values.
Readings ==
    {0, 1, 999, 1000, 1999, 47500, 90000, 255000, 255999, 256000, 256999,
     300000, 999999999, 2147483647}
        \cup {k * 16000 + 999 : k \in 0..31}

\* What the temp file can hold: a reading printed with its newline, a
\* reading written another way, or text that is no reading.
CpuSamples ==
    {[text |-> Decimal(r) \o <<"\n">>, reading |-> r] : r \in Readings}
        \cup {[text |-> <<" ", "+", "1", "0", "0", "0", "\n">>,
               reading |-> 1000],
              [text |-> <<"0", "0", "4", "7", "5", "0", "0">>,
               reading |-> 47500],
              [text |-> <<>>, reading |-> NoReading],
              [text |-> <<"\n">>, reading |-> NoReading],
              [text |-> <<"+">>, reading |-> NoReading],
              [text |-> <<"-", "1", "0", "0", "0", "\n">>,
               reading |-> NoReading],
              [text |-> <<"4", "7", ".", "5", "\n">>, reading |-> NoReading],
              [text |-> <<"4", "7", " ", "5", "0", "0">>,
               reading |-> NoReading],
              [text |-> <<"a", "b", "c", "\n">>, reading |-> NoReading],
              [text |-> <<"4", "2", "9", "4", "9", "6", "7", "2", "9", "6",
                          "\n">>,
               reading |-> NoReading]}

\* The temp file could not be read.
NoSample == [text |-> <<>>, reading |-> NoReading]

TempIdle ==
    /\ cpuPc = "idle"
    /\ cpuSample = NoSample
    /\ cpuMilli = 0
    /\ cpuResult = Err(0)

\* fs::read_to_string(CPU_TEMP_PATH): an error returned, or the text.
TempCall ==
    /\ cpuPc = "idle"
    /\ \/ /\ cpuSample' = NoSample
          /\ cpuResult' = Err(0)
          /\ cpuPc' = "returned"
          /\ UNCHANGED cpuMilli
       \/ /\ cpuSample' \in CpuSamples
          /\ cpuPc' = "read"
          /\ UNCHANGED <<cpuMilli, cpuResult>>

\* raw.trim().parse::<u32>(), its error mapped and returned.
TempParse ==
    /\ cpuPc = "read"
    /\ LET parsed == ParseU32(Trim(cpuSample.text))
       IN  IF parsed.ok
           THEN /\ cpuMilli' = parsed.val
                /\ cpuPc' = "parsed"
                /\ UNCHANGED cpuResult
           ELSE /\ cpuResult' = Err(0)
                /\ cpuPc' = "returned"
                /\ UNCHANGED cpuMilli
    /\ UNCHANGED cpuSample

\* Ok((milli / 1000) as u8).
TempConvert ==
    /\ cpuPc = "parsed"
    /\ cpuResult' = Ok(CpuTempOfRaw(cpuMilli))
    /\ cpuPc' = "returned"
    /\ UNCHANGED <<cpuSample, cpuMilli>>

TempReturn ==
    /\ cpuPc = "returned"
    /\ cpuPc' = "idle"
    /\ cpuSample' = NoSample
    /\ cpuMilli' = 0
    /\ cpuResult' = Err(0)

\* ------------------------------------- set_global_color: brightness

\* The scaling with the brightness taken as it comes.
ScaledChannelUnclamped(c, brightness) ==
    (((c * brightness) % 65536) \div 100) % 256

\* ((c as u16 * level) / 100) as u8 with level = brightness.min(100) as u16.
ScaledChannel(c, brightness) ==
    (((c * Min(brightness, 100)) % 65536) \div 100) % 256

\* The brightness arguments: both ends of the percentage, values inside it,
\* and values of the u8 above it.
ScaleBrightness == {0, 1, 10, 33, 50, 80, 99, 100, 101, 150, 200, 255}

ScaleIdle ==
    /\ scPc = "idle"
    /\ scArgs = [c |-> 0, b |-> 0]
    /\ scOut = 0

ScaleCall ==
    /\ scPc = "idle"
    /\ \E c \in 0..255, b \in ScaleBrightness :
          /\ scArgs' = [c |-> c, b |-> b]
          /\ scOut' = ScaledChannel(c, b)
    /\ scPc' = "returned"

ScaleReturn ==
    /\ scPc = "returned"
    /\ scPc' = "idle"
    /\ scArgs' = [c |-> 0, b |-> 0]
    /\ scOut' = 0

\* ------------------------------------------- the TUI: the system tab

\* The settings load_settings builds, in its order.
Sids == <<"Thermal", "Backlight", "BatCal", "BatLim", "BootAnim", "Fan",
          "Lcd", "Usb">>

SettingIdx == 0..(Len(Sids) - 1)

SidOf(idx) == Sids[idx + 1]

IsToggle(idx) ==
    SidOf(idx) \in {"Backlight", "BatCal", "BatLim", "BootAnim", "Lcd"}

FanOpts == <<"0,0", "30,30", "50,50", "70,70", "100,100">>

UsbOpts == <<"0", "10", "20", "30">>

\* The option values of a Cycle setting; a Toggle has none.
KindOpts(idx, ch) ==
    IF SidOf(idx) = "Thermal"
    THEN IF ch = <<>> THEN <<"N/A">> ELSE ch
    ELSE IF SidOf(idx) = "Fan" THEN FanOpts
    ELSE IF SidOf(idx) = "Usb" THEN UsbOpts
    ELSE <<>>

\* Option<usize>::None for a pending preview.
NoPending == -1

\* opts.iter().position(|o| o.value == raw).unwrap_or(0)
Position(opts, raw) ==
    IF \E j \in 1..Len(opts) : opts[j] = raw
    THEN (CHOOSE j \in 1..Len(opts) :
              /\ opts[j] = raw
              /\ \A k \in 1..(j - 1) : opts[k] # raw) - 1
    ELSE 0

\* load_settings: every attribute read afresh, no preview pending.
load_settings(files) ==
    [idx \in SettingIdx |-> [raw |-> files[idx], pending |-> NoPending]]

Event(key, writes) == [key |-> key, writes |-> writes]

\* The attribute files of an idle machine.
DefaultSysfs ==
    [idx \in SettingIdx |->
        IF SidOf(idx) = "Thermal" THEN "balanced"
        ELSE IF SidOf(idx) = "Fan" THEN "0,0"
        ELSE "0"]

\* The attribute files when the TUI starts: the fan automatic, or left by
\* another program at a speed that is none of the options.
StartSysfs == {DefaultSysfs, [DefaultSysfs EXCEPT ![5] = "45,45"]}

\* What thermal_choices gives: the profiles, or nothing.
ChoiceLists == {<<"quiet", "balanced", "performance">>, <<>>}

TuiIdle ==
    /\ tab = "System"
    /\ ctrl_sel = 0
    /\ choices = <<>>
    /\ sysfs = DefaultSysfs
    /\ settings = load_settings(DefaultSysfs)
    /\ lastEvent = Event("none", <<>>)

\* App::new.
AppNew ==
    /\ tab = "System"
    /\ ctrl_sel = 0
    /\ choices \in ChoiceLists
    /\ sysfs \in StartSysfs
    /\ settings = load_settings(sysfs)
    /\ lastEvent = Event("none", <<>>)

\* on_key: F1, F2, Tab and BackTab set the tab and return.
KeyTab ==
    /\ \E k \in {"F1", "F2", "Tab"} :
          /\ tab' = IF k = "F1" THEN "System"
                    ELSE IF k = "F2" THEN "Rgb"
                    ELSE IF tab = "System" THEN "Rgb" ELSE "System"
          /\ lastEvent' = Event(k, <<>>)
    /\ UNCHANGED <<ctrl_sel, settings, choices, sysfs>>

\* Up that leaves the preview of the setting it moves away from.
KeyUpKeeping ==
    /\ tab = "System"
    /\ ctrl_sel' = IF ctrl_sel > 0 THEN ctrl_sel - 1 ELSE Len(Sids) - 1
    /\ lastEvent' = Event("Up", <<>>)
    /\ UNCHANGED <<tab, settings, choices, sysfs>>

\* on_key_system, Up or k.
KeyUp ==
    /\ tab = "System"
    /\ settings' = [settings EXCEPT ![ctrl_sel].pending = NoPending]
    /\ ctrl_sel' = IF ctrl_sel > 0 THEN ctrl_sel - 1 ELSE Len(Sids) - 1
    /\ lastEvent' = Event("Up", <<>>)
    /\ UNCHANGED <<tab, choices, sysfs>>

\* on_key_system, Down or j.
KeyDown ==
    /\ tab = "System"
    /\ settings' = [settings EXCEPT ![ctrl_sel].pending = NoPending]
    /\ ctrl_sel' = (ctrl_sel + 1) % Len(Sids)
    /\ lastEvent' = Event("Down", <<>>)
    /\ UNCHANGED <<tab, choices, sysfs>>

\* The index a preview starts from: the pending one, or the raw value's.
CurrentIdx(idx) ==
    IF settings[idx].pending # NoPending
    THEN settings[idx].pending
    ELSE Position(KindOpts(idx, choices), settings[idx].raw)

\* on_key_system, Left or h.
cycle_setting_left ==
    /\ tab = "System"
    /\ LET opts == KindOpts(ctrl_sel, choices)
           cur == CurrentIdx(ctrl_sel)
           nxt == IF cur > 0 THEN cur - 1 ELSE Len(opts) - 1
       IN  IF IsToggle(ctrl_sel) \/ opts = <<>>
           THEN UNCHANGED settings
           ELSE settings' = [settings EXCEPT ![ctrl_sel].pending = nxt]
    /\ lastEvent' = Event("Left", <<>>)
    /\ UNCHANGED <<tab, ctrl_sel, choices, sysfs>>

\* write_setting(id, val), and load_settings once it returned Ok.
WriteSetting(key, idx, val) ==
    \E ok \in BOOLEAN :
        /\ sysfs' = IF ok THEN [sysfs EXCEPT ![idx] = val] ELSE sysfs
        /\ settings' = IF ok THEN load_settings(sysfs') ELSE settings
        /\ lastEvent' =
               Event(key, <<[id |-> SidOf(idx), val |-> val, ok |-> ok]>>)

\* Right that writes the option it moves to.
cycle_setting_right_writing ==
    /\ tab = "System"
    /\ LET opts == KindOpts(ctrl_sel, choices)
           nxt == (CurrentIdx(ctrl_sel) + 1) % Len(opts)
       IN  IF IsToggle(ctrl_sel) \/ opts = <<>>
           THEN /\ UNCHANGED <<settings, sysfs>>
                /\ lastEvent' = Event("Right", <<>>)
           ELSE WriteSetting("Right", ctrl_sel, opts[nxt + 1])
    /\ UNCHANGED <<tab, ctrl_sel, choices>>

\* on_key_system, Right or l.
cycle_setting_right ==
    /\ tab = "System"
    /\ LET opts == KindOpts(ctrl_sel, choices)
           nxt == (CurrentIdx(ctrl_sel) + 1) % Len(opts)
       IN  IF IsToggle(ctrl_sel) \/ opts = <<>>
           THEN UNCHANGED settings
           ELSE settings' = [settings EXCEPT ![ctrl_sel].pending = nxt]
    /\ lastEvent' = Event("Right", <<>>)
    /\ UNCHANGED <<tab, ctrl_sel, choices, sysfs>>

\* on_key_system, Enter or Space.
confirm_setting ==
    /\ tab = "System"
    /\ LET idx == ctrl_sel
           raw == settings[idx].raw
           opts == KindOpts(idx, choices)
           pidx == settings[idx].pending
       IN  IF IsToggle(idx)
           THEN WriteSetting("Enter", idx, IF raw = "1" THEN "0" ELSE "1")
           ELSE IF pidx # NoPending
           THEN IF pidx < Len(opts)
                THEN WriteSetting("Enter", idx, opts[pidx + 1])
                ELSE /\ lastEvent' = Event("Enter", <<>>)
                     /\ UNCHANGED <<settings, sysfs>>
           ELSE /\ IF opts = <<>>
                   THEN UNCHANGED settings
                   ELSE settings' =
                            [settings EXCEPT ![idx].pending =
                                (Position(opts, raw) + 1) % Len(opts)]
                /\ lastEvent' = Event("Enter", <<>>)
                /\ UNCHANGED sysfs
    /\ UNCHANGED <<tab, ctrl_sel, choices>>

\* on_key_system, Esc.
KeyEsc ==
    /\ tab = "System"
    /\ settings' = [settings EXCEPT ![ctrl_sel].pending = NoPending]
    /\ lastEvent' = Event("Esc", <<>>)
    /\ UNCHANGED <<tab, ctrl_sel, choices, sysfs>>

\* on_key_system, r or R: load_settings, then tick, which loads them again.
KeyRefresh ==
    /\ tab = "System"
    /\ settings' = load_settings(sysfs)
    /\ lastEvent' = Event("r", <<>>)
    /\ UNCHANGED <<tab, ctrl_sel, choices, sysfs>>

\* App::tick: the settings loaded afresh on the system tab when no preview
\* is pending. The sensors and tick_n are left out.
tick ==
    /\ IF tab = "System"
          /\ \A idx \in SettingIdx : settings[idx].pending = NoPending
       THEN settings' = load_settings(sysfs)
       ELSE UNCHANGED settings
    /\ lastEvent' = Event("tick", <<>>)
    /\ UNCHANGED <<tab, ctrl_sel, choices, sysfs>>

\* ---------------------------------------------- the TUI: the RGB tab

NumEffects == 14

NumColors == 11

NumDirections == 6

RGB_PARAM_COUNT == 5

\* RgbState::from_config. kb_found is left out.
from_config(cfg) ==
    [effect_idx |-> Min(cfg.effect, NumEffects - 1),
     color_idx  |-> Min(cfg.color, NumColors - 1),
     brightness |-> Min(cfg.brightness, 100),
     speed      |-> Min(cfg.speed, 100),
     dir_idx    |-> Min(cfg.direction, NumDirections - 1),
     sel        |-> 0]

\* The saved RgbConfigs: the default, and files edited by hand to values
\* outside every table and above the percentage.
SavedRgbConfigs ==
    [effect : {1, 99}, color : {9, 99}, brightness : {80, 95, 255},
     speed : {50, 255}, direction : {0, 99}]

\* RgbState::cycle_left.
cycle_left(s) ==
    IF s.sel = 0
    THEN [s EXCEPT !.effect_idx = IF @ > 0 THEN @ - 1 ELSE NumEffects - 1]
    ELSE IF s.sel = 1
    THEN [s EXCEPT !.color_idx = IF @ > 0 THEN @ - 1 ELSE NumColors - 1]
    ELSE IF s.sel = 2
    THEN [s EXCEPT !.brightness = Max(@ - 10, 0)]
    ELSE IF s.sel = 3
    THEN [s EXCEPT !.speed = Max(@ - 10, 0)]
    ELSE IF s.sel = 4
    THEN [s EXCEPT !.dir_idx = IF @ > 0 THEN @ - 1 ELSE NumDirections - 1]
    ELSE s

\* cycle_right with the brightness and speed steps left as the u8 sums.
cycle_right_unclamped(s) ==
    IF s.sel = 0
    THEN [s EXCEPT !.effect_idx = (@ + 1) % NumEffects]
    ELSE IF s.sel = 1
    THEN [s EXCEPT !.color_idx = (@ + 1) % NumColors]
    ELSE IF s.sel = 2
    THEN [s EXCEPT !.brightness = (@ + 10) % 256]
    ELSE IF s.sel = 3
    THEN [s EXCEPT !.speed = (@ + 10) % 256]
    ELSE IF s.sel = 4
    THEN [s EXCEPT !.dir_idx = (@ + 1) % NumDirections]
    ELSE s

\* RgbState::cycle_right; the sums are u8.
cycle_right(s) ==
    IF s.sel = 0
    THEN [s EXCEPT !.effect_idx = (@ + 1) % NumEffects]
    ELSE IF s.sel = 1
    THEN [s EXCEPT !.color_idx = (@ + 1) % NumColors]
    ELSE IF s.sel = 2
    THEN [s EXCEPT !.brightness = Min((@ + 10) % 256, 100)]
    ELSE IF s.sel = 3
    THEN [s EXCEPT !.speed = Min((@ + 10) % 256, 100)]
    ELSE IF s.sel = 4
    THEN [s EXCEPT !.dir_idx = (@ + 1) % NumDirections]
    ELSE s

RgbTabIdle == rgbState = from_config([effect |-> 1, color |-> 9,
                                      brightness |-> 80, speed |-> 50,
                                      direction |-> 0])

\* on_key_rgb, Up or k.
RgbKeyUp ==
    rgbState' = [rgbState EXCEPT
                    !.sel = IF @ > 0 THEN @ - 1 ELSE RGB_PARAM_COUNT - 1]

\* on_key_rgb, Down or j.
RgbKeyDown ==
    rgbState' = [rgbState EXCEPT !.sel = (@ + 1) % RGB_PARAM_COUNT]

\* on_key_rgb, Left or h.
RgbKeyLeft == rgbState' = cycle_left(rgbState)

\* on_key_rgb, Right or l.
RgbKeyRight == rgbState' = cycle_right(rgbState)

\* on_key_rgb, Enter or Space: apply_rgb sends the state to the keyboard and
\* saves it; the RgbState is only read.
apply_rgb == UNCHANGED rgbState

\* on_key_rgb, s or S: save_rgb saves the state; the RgbState is only read.
save_rgb == UNCHANGED rgbState

\* ------------------------------------------------------ specifications

\* Nothing but the daemon runs.
OthersIdle == TempIdle /\ ScaleIdle /\ TuiIdle /\ RgbTabIdle

\* The daemon: the connection handlers and the control loop over the Store.
Init ==
    /\ InitDaemon /\ LightingIdle /\ Serving /\ FanIdle /\ ThermalIdle
    /\ OthersIdle

Next ==
    /\ \/ \E c \in Conns : ConnStep(c)
       \/ LoopStep
    /\ UNCHANGED <<initial_config, kbVars, startVars, fanVars, tpVars,
                 otherVars>>

Spec == Init /\ [][Next]_vars

\* The daemon under fair scheduling, with one handler whose hardware call
\* may never return. Every task keeps being polled, so a step that needs only
\* the processor is taken (WF); tokio's Mutex hands the lock to its waiters
\* in the order they asked, so a waiter is not passed over for ever (SF); the
\* hardware calls of the other tasks return. The client's request is left
\* without fairness: a connection may stay silent.
Stalled == 1

InitFair ==
    /\ DaemonAt(DefaultConfig) /\ LightingIdle
    /\ Serving /\ FanIdle /\ ThermalIdle
    /\ OthersIdle

TaskStep(A) ==
    A /\ UNCHANGED <<initial_config, kbVars, startVars, fanVars, tpVars,
                 otherVars>>

Fairness ==
    /\ \A c \in Conns :
          /\ SF_vars(TaskStep(StoreLock(c)))
          /\ SF_vars(TaskStep(PersistLock(c)))
          /\ WF_vars(TaskStep(StatusCloneFirst(c) \/ StatusCloneRest(c)
                               \/ RgbModeSnapshot(c) \/ BrightnessRead(c)
                               \/ ToggleRead(c) \/ PersistConfig(c)))
    /\ \A c \in Conns \ {Stalled} :
          WF_vars(TaskStep(HwWrite(c) \/ StatusSensors(c)))
    /\ SF_vars(TaskStep(LoopLock))
    /\ WF_vars(TaskStep(LoopReadMode \/ LoopReadTemp \/ LoopWriteFan))

\* The requests of this specification: one command of each handler shape
\* (clone and sensors; hardware call then persist; lock, read, hardware call,
\* persist), and the requests that do not decode.
FairOps == {"none", "GetHardwareStatus", "SetFanMode", "SetRgbMode",
            "IncreaseRgbBrightness", "ToggleSmartBatterySaver",
            "SetThermalProfile"}

NextFair == Next /\ \A c \in Conns : cmd'[c].op \in FairOps

SpecFair == InitFair /\ [][NextFair]_vars /\ Fairness

\* The daemon from the start of main: apply_saved_state, the control loop
\* spawned, the socket bound and opened up, then the accept loop. Once main
\* has returned nothing runs any more.
InitStart ==
    /\ DaemonAt(DefaultConfig) /\ LightingIdle /\ FanIdle /\ ThermalIdle
    /\ pcMain = "apply"
    /\ OthersIdle

NextStart ==
    /\ \/ MainStep
       \/ /\ pcMain \in {"bind", "perms", "serving"}
          /\ LoopStep
          /\ UNCHANGED <<initial_config, pcMain>>
       \/ /\ pcMain = "serving"
          /\ \E c \in Conns : ConnStep(c)
          /\ \A c \in Conns : cmd'[c].op \in FairOps
          /\ UNCHANGED <<initial_config, pcMain>>
    /\ UNCHANGED <<kbVars, fanVars, tpVars, otherVars>>

SpecStart == InitStart /\ [][NextStart]_vars

\* calculate_fan_speed called on one curve at every temperature in turn.
InitCurves ==
    /\ DaemonAt(DefaultConfig) /\ LightingIdle /\ Serving /\ ThermalIdle
    /\ InitCurve
    /\ OthersIdle

NextCurves ==
    /\ \/ FanCompute
       \/ FanNextTemp
    /\ UNCHANGED <<daemonVars, kbVars, startVars, tpVars, otherVars>>

SpecCurves == InitCurves /\ [][NextCurves]_vars

\* set_thermal_profile called a number of times on the platform profile.
InitThermal ==
    /\ DaemonAt(DefaultConfig) /\ LightingIdle /\ Serving /\ FanIdle
    /\ ThermalIdle
    /\ OthersIdle

NextThermal ==
    /\ \/ ThermalCall
       \/ ThermalTrim
       \/ ThermalChoices
       \/ ThermalWrite
    /\ UNCHANGED <<daemonVars, kbVars, startVars, fanVars, otherVars>>

SpecThermal == InitThermal /\ [][NextThermal]_vars

\* The lighting driver: the operations on the USB keyboard.
InitKb ==
    /\ DaemonAt(DefaultConfig) /\ InitLighting
    /\ Serving /\ FanIdle /\ ThermalIdle
    /\ OthersIdle

NextKb ==
    /\ \E o \in KbOps : KbStep(o)
    /\ UNCHANGED <<daemonVars, startVars, fanVars, tpVars, otherVars>>

SpecKb == InitKb /\ [][NextKb]_vars

\* The daemon serving one command after another: a connection is read only
\* once every earlier one is closed. The stored brightness starts inside
\* its domain, one partial step away from either bound or in the middle.
SeqBrightness == {5, 50, 95}

InitSeq ==
    /\ \E b \in SeqBrightness :
          DaemonAt([DefaultConfig EXCEPT !.rgb_brightness = b])
    /\ LightingIdle /\ Serving /\ FanIdle /\ ThermalIdle
    /\ OthersIdle

NextSeq ==
    /\ \/ \E c \in Conns :
             /\ pc[c] = "await" =>
                   \A d \in Conns \ {c} : pc[d] \in {"await", "closed"}
             /\ ConnStep(c)
       \/ LoopStep
    /\ UNCHANGED <<initial_config, kbVars, startVars, fanVars, tpVars,
                 otherVars>>

SpecSeq == InitSeq /\ [][NextSeq]_vars

\* The daemon at rest, for the specifications of one function or of the TUI.
DaemonIdle ==
    /\ DaemonAt(DefaultConfig) /\ LightingIdle
    /\ Serving /\ FanIdle /\ ThermalIdle

daemonSide == <<daemonVars, kbVars, startVars, fanVars, tpVars>>

\* get_cpu_temp called on one temp file after another.
InitTemp == DaemonIdle /\ OthersIdle

NextTemp ==
    /\ \/ TempCall
       \/ TempParse
       \/ TempConvert
       \/ TempReturn
    /\ UNCHANGED <<daemonSide, scaleVars, tuiVars, rgbTabVars>>

SpecTemp == InitTemp /\ [][NextTemp]_vars

\* The brightness scaling of set_global_color on one channel after another.
InitScale == DaemonIdle /\ OthersIdle

NextScale ==
    /\ \/ ScaleCall
       \/ ScaleReturn
    /\ UNCHANGED <<daemonSide, tempVars, tuiVars, rgbTabVars>>

SpecScale == InitScale /\ [][NextScale]_vars

\* The TUI from App::new: the keys of the system tab, the keys that switch
\* tabs, and the periodic tick. The keys on_key_rgb handles change the
\* RgbState alone and are those of SpecRgb.
InitTui == DaemonIdle /\ TempIdle /\ ScaleIdle /\ RgbTabIdle /\ AppNew

NextTui ==
    /\ \/ KeyTab
       \/ KeyUp
       \/ KeyDown
       \/ cycle_setting_left
       \/ cycle_setting_right
       \/ confirm_setting
       \/ KeyEsc
       \/ KeyRefresh
       \/ tick
    /\ UNCHANGED <<daemonSide, tempVars, scaleVars, rgbTabVars>>

SpecTui == InitTui /\ [][NextTui]_vars

\* The TUI on the RGB tab: RgbState::from_config on a saved RgbConfig, then
\* the keys on_key_rgb handles.
InitRgb ==
    /\ DaemonIdle /\ TempIdle /\ ScaleIdle /\ TuiIdle
    /\ \E cfg \in SavedRgbConfigs : rgbState = from_config(cfg)

NextRgb ==
    /\ \/ RgbKeyUp
       \/ RgbKeyDown
       \/ RgbKeyLeft
       \/ RgbKeyRight
       \/ apply_rgb
       \/ save_rgb
    /\ UNCHANGED <<daemonSide, tempVars, scaleVars, tuiVars>>

SpecRgb == InitRgb /\ [][NextRgb]_vars

\* ================================================================ claims

\* The commands that change the Configuration.
MutatingOps ==
    {"SetFanMode", "SetBatteryLimiter", "SetRgbMode", "IncreaseRgbBrightness",
     "DecreaseRgbBrightness", "ToggleSmartBatterySaver", "SetLcdOverdrive",
     "SetBootAnimation", "SetUsbCharging"}

AllClosed == \A c \in Conns : pc[c] = "closed"

\* C1: a mutating command whose hardware write or lighting apply fails
\* replies Response::Error carrying the hardware error message, and its
\* handler then does nothing more: from the failing step on, every step of
\* that handler is the one that replies and returns, and it leaves the
\* in-memory and the persisted Configuration as they were.
C1_FailedWriteLeavesStore ==
    [][\A c \in Conns :
          (hw_result'[c] = "err" /\ pc'[c] # pc[c] /\ cmd[c].op \in MutatingOps)
          => /\ pc[c] = "hw"
             /\ pc'[c] = "closed"
             /\ resp'[c].kind = "Error"
             /\ resp'[c].msg \in {HwError(HwTarget(cmd[c], loc[c]).attr),
                                  UsbThresholdError}
             /\ nresp'[c] = 1
             /\ config' = config
             /\ disk' = disk]_vars

\* C1 witness: a brightness step whose lighting apply failed has been
\* answered, after another connection changed the Configuration.
C1_Witness ==
    \E c, d \in Conns :
        /\ c # d
        /\ cmd[c].op = "IncreaseRgbBrightness"
        /\ hw_result[c] = "err"
        /\ pc[c] = "closed"
        /\ resp[c] = Error(HwError("keyboard"))
        /\ resp[d].kind = "Ack"
        /\ config # initial_config

\* The attribute behind each sysfs-backed Configuration field.
SysfsFields ==
    {<<"battery_limiter", "battery_limiter">>,
     <<"lcd_overdrive", "lcd_override">>,
     <<"boot_animation", "boot_animation_sound">>,
     <<"smart_battery_saver", "backlight_timeout">>,
     <<"usb_charging", "usb_charging">>}

\* C2: with every hardware write succeeding, once no command is in flight
\* each sysfs-backed Configuration field equals the value last written to
\* its hardware attribute.
C2_StoreMatchesHardware ==
    (AllClosed /\ \A c \in Conns : hw_result[c] # "err")
    => \A f \in SysfsFields : hw[f[2]].set => config[f[1]] = hw[f[2]].val

\* C3: no task is at a hardware call (a sysfs read or write, the lighting
\* apply, the sensor reads of a status query) while it holds the Store lock.
C3_NoHardwareCallUnderLock ==
    /\ \A c \in Conns : pc[c] \in {"hw", "sensors"} => lock # ConnTask(c)
    /\ pcLoop \in {"temp", "write"} => lock # LoopTask

\* C3 witness: a handler is at its hardware call while another task holds
\* the Store lock.
C3_Witness ==
    \E c \in Conns : pc[c] = "hw" /\ lock # Free /\ lock # ConnTask(c)

\* C4: two brightness steps in the same direction, handled concurrently
\* from a stored brightness b with both lighting applies succeeding, leave
\* the stored brightness at b + 20 (increase, b <= 80) or b - 20 (decrease,
\* b >= 20).
C4_NoLostBrightnessStep ==
    \A c, d \in Conns :
        (/\ c # d
         /\ AllClosed
         /\ cmd[c].op = cmd[d].op
         /\ cmd[c].op \in {"IncreaseRgbBrightness", "DecreaseRgbBrightness"}
         /\ hw_result[c] = "ok" /\ hw_result[d] = "ok"
         /\ \A e \in Conns \ {c, d} :
               cmd[e].op \notin {"IncreaseRgbBrightness", "DecreaseRgbBrightness"}
         /\ initial_config.rgb_brightness \in 20..80)
        => config.rgb_brightness =
              IF cmd[c].op = "IncreaseRgbBrightness"
              THEN initial_config.rgb_brightness + 20
              ELSE initial_config.rgb_brightness - 20

\* The Configuration fields a HardwareStatus reports, out of a clone.
ReportedFields(cfg) ==
    [NoSnap EXCEPT !.fan_mode = cfg.fan_mode,
                   !.rgb_mode = cfg.rgb_mode,
                   !.rgb_brightness = cfg.rgb_brightness,
                   !.fx_speed = cfg.fx_speed,
                   !.smart_battery_saver = cfg.smart_battery_saver,
                   !.battery_limiter = cfg.battery_limiter]

\* C5: the Configuration fields of a HardwareStatus are those of one Store
\* state: when the clone completes and the lock is released the clone equals
\* the Store as it is at that instant, and the response reports the clone's
\* fields.
C5_StatusNotTorn ==
    [][\A c \in Conns :
          /\ (pc[c] = "read2" /\ pc'[c] = "sensors") => snap'[c] = config
          /\ (pc[c] = "sensors" /\ pc'[c] = "closed")
             => /\ resp'[c].kind = "HardwareStatus"
                /\ resp'[c].status.cfg = ReportedFields(snap[c])]_vars

\* C5 witness: a status query cloned the Store while a fan-mode command was
\* between its hardware write and its Store mutation; the status reports the
\* state before the mutation and the Store now holds the state after it.
C5_Witness ==
    \E c, d \in Conns :
        /\ resp[c].kind = "HardwareStatus"
        /\ cmd[d].op = "SetFanMode"
        /\ resp[d].kind = "Ack"
        /\ resp[c].status.cfg = ReportedFields(initial_config)
        /\ config.fan_mode # initial_config.fan_mode

CpuTemps == {CpuTempOfRaw(raw) : raw \in RawCpuTemps}

\* C7: a step of the control loop changes the hardware only as the fan write
\* of an iteration that read mode Auto and a temperature, and then to
\* Custom(d, d) with d = calculate_fan_speed(temperature, FAN_CURVE); the
\* loop is at its fan write only in such an iteration.
C7_LoopWritesOnlyInAuto ==
    [][/\ (pcLoop' # pcLoop /\ hw' # hw)
          => /\ pcLoop = "write"
             /\ hw' = [hw EXCEPT !.fan_speed =
                         Written(<<calculate_fan_speed(loopTemp, FAN_CURVE),
                                   calculate_fan_speed(loopTemp, FAN_CURVE)>>)]
       /\ pcLoop' = "write" => (loopMode' = FanAuto /\ loopTemp' \in CpuTemps)
      ]_vars

\* C7 witness: the loop's write of the duty for 47 degrees is the last fan
\* write.
C7_Witness ==
    /\ pcLoop = "sleep"
    /\ hw.fan_speed = Written(<<29, 29>>)
    /\ calculate_fan_speed(47, FAN_CURVE) = 29

\* C8: nothing orders a handler's fan write and the control loop's: an
\* iteration that read Auto can make its write whatever the Store holds or
\* whoever holds the lock by then, and so can a handler at its hardware
\* call.
C8_FanWritesUnordered ==
    /\ pcLoop = "write" => ENABLED LoopWriteFan
    /\ \A c \in Conns : pc[c] = "hw" => ENABLED HwWrite(c)

\* C8 witness: the loop's duty is on the hardware, written after the
\* handler's write for Turbo, and the Store records Turbo.
C8_Witness ==
    \E c \in Conns :
        /\ cmd[c] = Cmd("SetFanMode", FanTurbo, FALSE, 0, "none")
        /\ resp[c].kind = "Ack"
        /\ config.fan_mode = FanTurbo
        /\ hw.fan_speed = Written(<<29, 29>>)
        /\ pcLoop = "sleep"
        /\ AllClosed

C10_UnknownEffectNoTransfer ==
    \A o \in KbOps :
        (/\ kbCall[o].fn = "set_animation"
         /\ ToAsciiLowercase(kbCall[o].effect) \notin SupportedEffects)
        => kbSent[o] = <<>>

\* C11: when a mutating handler replies after persist_config, the persisted
\* configuration file equals the in-memory Configuration: the save has
\* completed with the new value before the reply and the release of the lock.
C11_SavedBeforeReply ==
    [][\A c \in Conns :
          (pc[c] = "persist" /\ pc'[c] = "closed") => disk' = config']_vars

\* C12: no task is at a file operation (persist_config's save of the
\* configuration file) while it holds the Store lock.
C12_NoFileIoUnderLock ==
    \A c \in Conns : pc[c] = "persist" => lock # ConnTask(c)

BrightnessOps == {"IncreaseRgbBrightness", "DecreaseRgbBrightness"}

\* C13: with commands handled one after another from a stored brightness in
\* [0,100], the stored rgb_brightness stays within [0,100], only a brightness
\* step changes it, and a step that succeeds moves it up by 10 but not above
\* 100, or down by 10 but not below 0.
C13_BrightnessStepsClamped ==
    [][/\ config'.rgb_brightness \in 0..100
       /\ config'.rgb_brightness # config.rgb_brightness
          => \E c \in Conns : pc[c] = "persist" /\ cmd[c].op \in BrightnessOps
       /\ \A c \in Conns :
            (pc[c] = "persist" /\ pc'[c] = "closed" /\ cmd[c].op \in BrightnessOps)
            => config'.rgb_brightness =
                 IF cmd[c].op = "IncreaseRgbBrightness"
                 THEN (IF config.rgb_brightness + 10 > 100
                       THEN 100 ELSE config.rgb_brightness + 10)
                 ELSE (IF config.rgb_brightness - 10 < 0
                       THEN 0 ELSE config.rgb_brightness - 10)]_vars

\* C13 witness: an increase from 95 was acknowledged and stored 100, and a
\* decrease after it stored 90.
C13_Witness ==
    \E c, d \in Conns :
        /\ initial_config.rgb_brightness = 95
        /\ cmd[c].op = "IncreaseRgbBrightness" /\ hw_result[c] = "ok"
        /\ cmd[d].op = "DecreaseRgbBrightness" /\ hw_result[d] = "ok"
        /\ AllClosed
        /\ config.rgb_brightness = 90

\* C14: an increase handled when the stored brightness is 100, and a decrease
\* when it is 0, replies Ack at once: the handler's step that reads the Store
\* is its last, no lighting call is made, and the hardware, the Configuration
\* and the file are left as they were.
C14_StepAtBoundIsNoOp ==
    [][\A c \in Conns :
          (/\ pc[c] = "read" /\ pc'[c] # "read"
           /\ \/ cmd[c].op = "IncreaseRgbBrightness" /\ config.rgb_brightness = 100
              \/ cmd[c].op = "DecreaseRgbBrightness" /\ config.rgb_brightness = 0)
          => /\ pc'[c] = "closed"
             /\ resp'[c].kind = "Ack"
             /\ nresp'[c] = 1
             /\ hw_result'[c] = "none"
             /\ hw' = hw
             /\ config' = config
             /\ disk' = disk]_vars

\* C14 witness: an increase at 100 has been acknowledged without a lighting
\* call, with nothing written to the keyboard and the Configuration as loaded.
C14_Witness ==
    \E c \in Conns :
        /\ cmd[c].op = "IncreaseRgbBrightness" /\ pc[c] = "closed"
        /\ resp[c].kind = "Ack"
        /\ hw_result[c] = "none"
        /\ initial_config.rgb_brightness = 100
        /\ config = initial_config
        /\ hw.keyboard = Unwritten(<<"none", 0, 0>>)
        /\ AllClosed

\* C15: SetUsbCharging(t) with t outside {0, 10, 20, 30} replies Error at its
\* hardware call without writing the hardware and leaves the Configuration
\* and the file unchanged; a SetUsbCharging that reaches persist_config has t
\* in {0, 10, 20, 30}, a successful write, and stores usb_charging = t.
C15_UsbThresholdValidated ==
    [][\A c \in Conns :
          cmd[c].op = "SetUsbCharging" =>
            /\ (pc[c] = "hw" /\ pc'[c] # "hw" /\ cmd[c].num \notin {0, 10, 20, 30})
               => /\ pc'[c] = "closed"
                  /\ resp'[c].kind = "Error"
                  /\ nresp'[c] = 1
                  /\ hw' = hw
                  /\ config' = config
                  /\ disk' = disk
            /\ (pc[c] = "persist" /\ pc'[c] = "closed")
               => /\ cmd[c].num \in {0, 10, 20, 30}
                  /\ hw_result[c] = "ok"
                  /\ config'.usb_charging = cmd[c].num
                  /\ resp'[c].kind = "Ack"]_vars

\* C15 witness: SetUsbCharging(15) was rejected and SetUsbCharging(10) was
\* written and stored.
C15_Witness ==
    \E c, d \in Conns :
        /\ cmd[c] = Cmd("SetUsbCharging", NoMode, FALSE, 15, "none")
        /\ resp[c] = Error(UsbThresholdError)
        /\ cmd[d] = Cmd("SetUsbCharging", NoMode, FALSE, 10, "none")
        /\ resp[d].kind = "Ack"
        /\ config.usb_charging = 10
        /\ hw.usb_charging = Written(10)
        /\ AllClosed

\* C16: in every reachable state, the state right after loading the
\* configuration file included, usb_charging is in {0, 10, 20, 30} and
\* rgb_brightness is at most 100, in the Store and in the file.
C16_ConfigurationInDomain ==
    /\ config.usb_charging \in {0, 10, 20, 30}
    /\ config.rgb_brightness <= 100
    /\ disk.usb_charging \in {0, 10, 20, 30}
    /\ disk.rgb_brightness <= 100

\* The commands that change the hardware.
HardwareChangingOps ==
    {"SetFanMode", "SetBatteryLimiter", "SetBatteryCalibration", "SetRgbMode",
     "ToggleSmartBatterySaver", "SetLcdOverdrive", "SetBootAnimation",
     "SetUsbCharging"}

\* C17: a hardware-changing command is acknowledged only out of
\* persist_config, that is, after the Store mutation that records the
\* commanded value and the save.
C17_AckOnlyAfterPersist ==
    [][\A c \in Conns :
          (/\ cmd[c].op \in HardwareChangingOps
           /\ pc[c] # "closed" /\ pc'[c] = "closed"
           /\ resp'[c].kind = "Ack")
          => /\ pc[c] = "persist"
             /\ config' = Mutate(config, cmd[c], loc[c])]_vars

\* C19: two ToggleSmartBatterySaver commands handled concurrently, both
\* hardware writes succeeding, leave smart_battery_saver at its original
\* value.
C19_TwoTogglesRestore ==
    \A c, d \in Conns :
        (/\ c # d
         /\ AllClosed
         /\ cmd[c].op = "ToggleSmartBatterySaver"
         /\ cmd[d].op = "ToggleSmartBatterySaver"
         /\ hw_result[c] = "ok" /\ hw_result[d] = "ok"
         /\ \A e \in Conns \ {c, d} : cmd[e].op # "ToggleSmartBatterySaver")
        => config.smart_battery_saver = initial_config.smart_battery_saver

\* C18: every request naming a Command variant is decoded, dispatched to its
\* operation and answered Ack, Error or HardwareStatus; a SetThermalProfile
\* request makes the thermal-profile write and is answered with its outcome.
C18_EveryVariantDispatched ==
    \A c \in Conns :
        (pc[c] = "closed" /\ cmd[c].op # "none")
        => /\ bytes_read[c] = "command"
           /\ resp[c].kind \in {"Ack", "Error", "HardwareStatus"}
           /\ cmd[c].op = "SetThermalProfile" => hw_result[c] \in {"ok", "err"}

\* C20: no step of a GetHardwareStatus handler changes the in-memory
\* Configuration, the file or the hardware, and the handler makes no
\* hardware write of its own.
C20_StatusNeverMutates ==
    [][\A c \in Conns :
          (cmd'[c].op = "GetHardwareStatus" /\ pc'[c] # pc[c])
          => /\ config' = config
             /\ disk' = disk
             /\ hw' = hw
             /\ hw_result'[c] = "none"]_vars

\* C20 witness: a status query has been answered from live sensor reads
\* while the Configuration and the hardware are as they were at startup.
C20_Witness ==
    \E c \in Conns :
        /\ cmd[c].op = "GetHardwareStatus"
        /\ pc[c] = "closed"
        /\ resp[c].kind = "HardwareStatus"
        /\ resp[c].status.cpu_temp = 47
        /\ resp[c].status.cfg = ReportedFields(initial_config)
        /\ config = initial_config /\ disk = initial_config
        /\ hw = InitHw
        /\ AllClosed

\* C21: a GetHardwareStatus that has been answered was answered with a
\* HardwareStatus; each of its three sensor values is the value read or, when
\* that read failed, 0, whatever became of the other two reads.
C21_StatusReadsRecovered ==
    \A c \in Conns :
        (cmd[c].op = "GetHardwareStatus" /\ pc[c] = "closed")
        => /\ resp[c].kind = "HardwareStatus"
           /\ nresp[c] = 1
           /\ resp[c].status.cpu_temp \in {0, 47}
           /\ resp[c].status.gpu_temp \in {0, 61}
           /\ <<resp[c].status.cpu_fan_percent, resp[c].status.gpu_fan_percent>>
                 \in {<<0, 0>>, <<35, 40>>}

\* C21 witness: a status whose CPU temperature read failed reports 0 for it
\* and the values read for the GPU temperature and the fans.
C21_Witness ==
    \E c \in Conns :
        /\ cmd[c].op = "GetHardwareStatus" /\ pc[c] = "closed"
        /\ resp[c].kind = "HardwareStatus"
        /\ resp[c].status.cpu_temp = 0
        /\ resp[c].status.gpu_temp = 61
        /\ resp[c].status.cpu_fan_percent = 35
        /\ resp[c].status.gpu_fan_percent = 40

\* C22: no step of the control loop changes the Configuration, in memory or
\* on disk.
C22_LoopLeavesStore ==
    [][pcLoop' # pcLoop => (config' = config /\ disk' = disk)]_vars

\* C22 witness: the loop has written its duty to the hardware, no command
\* was handled, and the Store and the file still hold fan mode Auto.
C22_Witness ==
    /\ hw.fan_speed = Written(<<100, 100>>)
    /\ pcLoop = "sleep"
    /\ config.fan_mode = FanAuto
    /\ disk.fan_mode = FanAuto
    /\ \A c \in Conns : pc[c] = "await"

\* The positions of send_usb_commands after its detach_kernel_driver
\* succeeded.
AfterDetach == {"claim", "cmds", "release"}

\* C24: an operation that detached the kernel driver returns, on whichever
\* path, with the kernel driver attached again.
C24_DriverReattachedAtReturn ==
    [][\A o \in KbOps :
          (/\ kbWasAttached[o]
           /\ kbPc[o] \in AfterDetach
           /\ kbPc'[o] = "returned")
          => kernelDriver' = "attached"]_vars

\* The positions between a successful claim_interface and the release.
Holding(o) ==
    kbPc[o] \in {"init", "chunks", "payload", "apply", "cmds", "release"}

ClaimErrors == {"USB claim failed", "Failed to claim USB interface 3"}

\* C25: a claim_interface step made while another operation is between its
\* claim and its release returns a claim error with no transfer issued, so no
\* two operations are ever between claim and release together; and the step
\* is always possible, it never waits for the other operation.
C25_ClaimExclusive ==
    [][\A o \in KbOps :
          /\ kbPc[o] = "claim" => ENABLED KbClaim(o)
          /\ (kbPc[o] = "claim" /\ kbPc'[o] # "claim"
              /\ \E p \in KbOps \ {o} : Holding(p))
             => /\ kbPc'[o] = "returned"
                /\ kbResult'[o] \in ClaimErrors
                /\ kbSent'[o] = <<>>
                /\ usbClaim' = usbClaim
          /\ \A p \in KbOps \ {o} : ~(Holding(o)' /\ Holding(p)')]_vars

\* C25 witness: one operation holds the claim with transfers under way and
\* the other has returned a claim error without a transfer.
C25_Witness ==
    \E o, p \in KbOps :
        /\ o # p
        /\ Holding(p) /\ usbClaim = p /\ kbSent[p] # <<>>
        /\ kbPc[o] = "returned"
        /\ kbResult[o] \in ClaimErrors
        /\ kbSent[o] = <<>>

\* C23: a handler at its hardware call never holds the Store lock; and with
\* the hardware call of one handler allowed to stall for ever, every other
\* handler that received its request completes, the control loop acquires the
\* lock again and again, and every task waiting for the lock gets it.
C23_StallBlocksNobody ==
    /\ [](\A c \in Conns : pc[c] \in {"hw", "sensors"} => lock # ConnTask(c))
    /\ \A c \in Conns \ {Stalled} : (pc[c] # "await") ~> (pc[c] = "closed")
    /\ (pc[Stalled] \in {"lock1", "lock2"})
          ~> (pc[Stalled] \in {"read", "persist"})
    /\ (pcLoop = "sleep") ~> (pcLoop = "locked")

\* C23 witness: the stalled handler is at its hardware call, the other
\* handler has taken the lock twice and been acknowledged, and the control
\* loop is past its lock.
C23_Witness ==
    /\ pc[Stalled] = "hw"
    /\ \E c \in Conns \ {Stalled} :
          /\ pc[c] = "closed"
          /\ resp[c].kind = "Ack"
          /\ cmd[c].op = "ToggleSmartBatterySaver"
    /\ pcLoop = "write"

\* C26: when the daemon has exited, it is the bind of the listening socket
\* that failed; no other failure ends it.
C26_OnlyBindFailureExits ==
    Exited => pcMain = "exited: bind failed"

\* A curve with at least one point, strictly increasing temperatures and
\* non-decreasing duties.
WellFormed(curve) ==
    /\ Len(curve) >= 1
    /\ \A i \in 1..(Len(curve) - 1) :
          /\ curve[i][1] < curve[i + 1][1]
          /\ curve[i][2] <= curve[i + 1][2]

C28_DutyMonotonic ==
    [][(fanPc = "call" /\ fanPc' = "done" /\ WellFormed(fanCurve))
       => /\ fanTemp > 0 => fanDuty' >= fanDuty
          /\ fanDuty' >= fanCurve[1][2]
          /\ fanDuty' <= fanCurve[Len(fanCurve)][2]]_vars

\* C28 witness: a well-formed curve called strictly inside a window whose
\* span (12 degrees, 108 duty steps) does not divide evenly, with a duty
\* strictly between the two ends.
C28_Witness ==
    /\ fanCurve = <<<<40, 20>>, <<52, 128>>>>
    /\ fanPc = "done"
    /\ fanTemp = 47
    /\ fanDuty = 83

\* C29: called at a temperature shared by two consecutive control points,
\* the function returns the duty of the second point of the pair.
C29_DegeneratePairUpperDuty ==
    fanPc = "done" =>
        \A i \in 1..(Len(fanCurve) - 1) :
            (fanCurve[i][1] = fanTemp /\ fanCurve[i + 1][1] = fanTemp)
            => fanDuty = fanCurve[i + 1][2]

\* The call's outcome is an error and the attribute is as it was.
RejectedWithoutWrite ==
    /\ tpResult # "ok"
    /\ ~tpWrote
    /\ platformProfile = tpBefore

\* C30: a set_thermal_profile call that has returned wrote the attribute
\* only if the trimmed name is not empty and is in the choice list the call
\* itself read, and then wrote that name followed by a newline; with an
\* empty name, a choice list that could not be read, or a name not in
\* the list, it returned an error and wrote nothing.
C30_ProfileValidated ==
    tpPc = "returned" =>
        LET name == TrimEndOf(TrimStartOf(tpArg, {" ", "\n", "\t"}),
                              {" ", "\n", "\t"})
            listed == /\ tpChoices.ok
                      /\ \E i \in 1..Len(tpChoices.val) :
                            tpChoices.val[i] = name
        IN  /\ tpWrote => /\ name # <<>>
                          /\ listed
                          /\ platformProfile = name \o <<"\n">>
                          /\ tpResult = "ok"
            /\ (name = <<>> \/ ~listed) => RejectedWithoutWrite
            /\ tpResult = "ok" <=> tpWrote

\* C30 witness: the name " cool\n" was trimmed, found in the list read, and
\* written as "cool\n" over the profile "quiet\n".
C30_Witness ==
    /\ tpPc = "returned"
    /\ tpArg = <<" ">> \o Cool \o <<"\n">>
    /\ tpWrote
    /\ tpBefore = Quiet \o <<"\n">>
    /\ platformProfile = Cool \o <<"\n">>

\* The transfers of a complete set_global_color, in order.
ColorTransfers ==
    <<<<"control", ColorInit>>>>
    \o [i \in 1..NumChunks |-> <<"interrupt", <<i>>>>]
    \o <<<<"control", ColorApply>>>>

IsPrefix(p, q) == Len(p) <= Len(q) /\ p = SubSeq(q, 1, Len(p))

\* C33: the transfers set_global_color has issued are always a prefix of
\* init packet, chunks 1..16 in order, apply packet; it returns Ok only with
\* all of them issued, and when it returns with fewer (a transfer failed)
\* it returns an error.
C33_ColorTransfersInOrder ==
    \A o \in KbOps :
        kbCall[o].fn = "set_global_color"
        => /\ IsPrefix(kbSent[o], ColorTransfers)
           /\ kbPc[o] = "returned"
              => (kbResult[o] = "ok" <=> kbSent[o] = ColorTransfers)

\* C33 witness: a set_global_color whose ninth chunk failed returned the
\* interrupt error with the init packet and eight chunks issued and nothing
\* after them.
C33_Witness ==
    \E o \in KbOps :
        /\ kbCall[o].fn = "set_global_color"
        /\ kbPc[o] = "returned"
        /\ kbResult[o] = "USB interrupt write failed"
        /\ Len(kbSent[o]) = 9

\* The hardware limits of the apply packet's brightness and speed bytes.
BRIGHT_HW_MAX == 50

SPEED_HW_FAST == 1

SPEED_HW_SLOW == 9

\* C34: in every apply packet set_animation has sent, the brightness byte is
\* floor(brightness * 50 / 100), within 0..50, and the speed byte is within
\* 1..9.
C34_ApplyPacketHardwareScaled ==
    \A o \in KbOps :
        \A i \in 1..Len(kbSent[o]) :
            (/\ kbCall[o].fn = "set_animation"
             /\ kbSent[o][i][2] # AnimationInit)
            => LET pkt == kbSent[o][i][2]
               IN  /\ pkt[5] = (Min(kbCall[o].brightness, 100) * BRIGHT_HW_MAX)
                                   \div 100
                   /\ pkt[5] \in 0..BRIGHT_HW_MAX
                   /\ pkt[4] \in SPEED_HW_FAST..SPEED_HW_SLOW

\* The positions of an iteration between reading Auto and its fan write.
LoopWillWrite == {"temp", "write"}

\* C36: an iteration that reads a mode other than Auto ends without a
\* hardware write; an iteration is headed for a fan write only from the
\* moment it read Auto in the Store; and its fan write ends it, so a second
\* write needs the mode to be read as Auto again. With the Store non-Auto from
\* some point on, only the iteration that had read Auto before can still
\* write, once.
C36_OneStaleWriteAtMost ==
    [][/\ (pcLoop = "locked" /\ config.fan_mode.tag # "Auto"
           /\ pcLoop' # pcLoop)
          => (pcLoop' = "sleep" /\ hw' = hw)
       /\ (pcLoop \notin LoopWillWrite /\ pcLoop' \in LoopWillWrite)
          => (pcLoop = "locked" /\ config.fan_mode = FanAuto)
       /\ (pcLoop = "write" /\ pcLoop' # pcLoop)
          => (pcLoop' = "sleep" /\ loopMode' = NoMode)
       /\ (pcLoop \notin LoopWillWrite /\ pcLoop' = pcLoop)
          => hw'.fan_speed = hw.fan_speed
             \/ \E c \in Conns : pc[c] = "hw" /\ pc'[c] # "hw"]_vars

\* C36 witness: the Store holds Turbo, the loop's duty written after the
\* handler's Turbo is on the hardware, and the next iteration is about to
\* read the mode.
C36_Witness ==
    /\ config.fan_mode = FanTurbo
    /\ hw.fan_speed = Written(<<29, 29>>)
    /\ pcLoop = "locked"
    /\ \E c \in Conns : cmd[c].op = "SetFanMode" /\ resp[c].kind = "Ack"

\* The commands that apply the lighting.
RgbOps == {"SetRgbMode", "IncreaseRgbBrightness", "DecreaseRgbBrightness"}

\* C37: once lighting commands handled concurrently have all been answered,
\* every lighting apply having succeeded, the keyboard shows the Store's
\* (rgb_mode, rgb_brightness, fx_speed).
C37_KeyboardMatchesStore ==
    (/\ AllClosed
     /\ \A c \in Conns : cmd[c].op \in RgbOps /\ hw_result[c] = "ok")
    => hw.keyboard.val = <<config.rgb_mode, config.rgb_brightness,
                           config.fx_speed>>

\* The targets of apply_saved_state in the order the claim gives them.
StartupOrder ==
    <<"battery_limiter", "lcd_override", "boot_animation_sound",
      "backlight_timeout", "usb_charging", "keyboard">>

\* C38: apply_saved_state leaves the hardware with the targets before some
\* point of the order battery_limiter, lcd_overdrive, boot_animation,
\* smart_battery_saver, usb_charging, keyboard lighting written with the
\* loaded values and every target from that point on untouched; it leaves
\* the Configuration in memory and on disk as loaded; and whatever that
\* point, main goes on to the control loop and the bind.
C38_StartupAppliesPrefix ==
    [][(pcMain = "apply" /\ pcMain' # pcMain)
       => /\ \E k \in 0..Len(StartupOrder) :
               \A i \in 1..Len(StartupOrder) :
                   /\ i <= k => hw'[StartupOrder[i]].set
                   /\ i > k => hw'[StartupOrder[i]] = hw[StartupOrder[i]]
          /\ hw'.battery_limiter.set
                => hw'.battery_limiter.val = initial_config.battery_limiter
          /\ hw'.keyboard.set
                => hw'.keyboard.val = <<initial_config.rgb_mode,
                                        initial_config.rgb_brightness,
                                        initial_config.fx_speed>>
          /\ hw'.fan_speed = hw.fan_speed
          /\ config' = config /\ disk' = disk
          /\ config' = initial_config
          /\ pcMain' = "bind"
          /\ pcLoop' = "sleep"]_vars

\* C38 witness: lcd_overdrive was applied and boot_animation failed; nothing
\* after it was applied, and the daemon is in its accept loop with no
\* request read yet.
C38_Witness ==
    /\ pcMain = "serving"
    /\ \A c \in Conns : pc[c] = "await"
    /\ hw.battery_limiter.set /\ hw.lcd_override.set
    /\ ~hw.boot_animation_sound.set /\ ~hw.backlight_timeout.set
    /\ ~hw.usb_charging.set /\ ~hw.keyboard.set
    /\ config = initial_config

\* C31: once get_cpu_temp has returned, a temp file holding the reading r
\* gave Ok(r / 1000 rounded down), and a temp file holding no reading, or
\* one that could not be read, gave an error.
C31_WholeDegrees ==
    cpuPc = "returned" =>
        IF cpuSample.reading # NoReading
        THEN cpuResult = Ok(cpuSample.reading \div 1000)
        ELSE ~cpuResult.ok

\* C32: the scaled channel of value c at brightness b is c * min(b, 100) / 100
\* rounded down; it is at most c, 0 at brightness 0, c at brightness 100,
\* 100 for 200 at brightness 50; and the product fits sixteen bits.
C32_ChannelScaled ==
    scPc = "returned" =>
        LET c == scArgs.c
            b == scArgs.b
        IN  /\ scOut = (c * Min(b, 100)) \div 100
            /\ scOut <= c
            /\ b = 0 => scOut = 0
            /\ b = 100 => scOut = c
            /\ (c = 200 /\ b = 50) => scOut = 100
            /\ c * Min(b, 100) < 65536

\* C32 witness: 200 scaled at brightness 50 came out as 100.
C32_Witness ==
    /\ scPc = "returned"
    /\ scArgs = [c |-> 200, b |-> 50]
    /\ scOut = 100

CycleSids == {"Thermal", "Fan", "Usb"}

\* C35: an event that calls write_setting for a Cycle setting is Enter on
\* the system tab with that setting selected and a preview pending, and the
\* value written is the option at the pending index; Left, Right, and Enter
\* on a Cycle setting with no preview pending call write_setting for nothing,
\* leave every attribute and every raw value as they were and change nothing
\* but the selected setting's preview; an attribute changes only by a
\* write_setting that returned Ok.
C35_CycleWritesOnConfirm ==
    [][LET w == lastEvent'.writes
           pidx == settings[ctrl_sel].pending
           opts == KindOpts(ctrl_sel, choices)
       IN  /\ (w # <<>> /\ w[1].id \in CycleSids)
                 => /\ lastEvent'.key = "Enter"
                    /\ tab = "System"
                    /\ w[1].id = SidOf(ctrl_sel)
                    /\ pidx # NoPending
                    /\ w[1].val = opts[pidx + 1]
           /\ (\/ lastEvent'.key \in {"Left", "Right"}
               \/ /\ lastEvent'.key = "Enter"
                  /\ ~IsToggle(ctrl_sel)
                  /\ pidx = NoPending)
                 => /\ w = <<>>
                    /\ sysfs' = sysfs
                    /\ \A idx \in SettingIdx :
                          /\ settings'[idx].raw = settings[idx].raw
                          /\ idx # ctrl_sel => settings'[idx] = settings[idx]
                    /\ ~IsToggle(ctrl_sel)
                          => settings'[ctrl_sel].pending
                                 \in 0..(Len(opts) - 1)
           /\ sysfs' # sysfs => (w # <<>> /\ w[1].ok)]_vars

\* C35 witness: Enter on the fan setting with the preview on "50,50" wrote
\* that value, and the attribute holds it.
C35_Witness ==
    /\ lastEvent =
           Event("Enter", <<[id |-> "Fan", val |-> "50,50", ok |-> TRUE]>>)
    /\ sysfs[5] = "50,50"
    /\ settings[5].raw = "50,50"
    /\ settings[5].pending = NoPending

PendingOnlySelected ==
    \A idx \in SettingIdx :
        settings[idx].pending # NoPending => idx = ctrl_sel

NonePending == \A idx \in SettingIdx : settings[idx].pending = NoPending

\* C39: in every state a setting with a pending preview is the selected
\* one; Up, Down, Esc, a refresh and an Enter whose write_setting returned Ok
\* leave no setting with a pending preview; a tick leaves every setting's
\* preview as it was.
C39_PendingFollowsSelection ==
    /\ PendingOnlySelected
    /\ [][/\ PendingOnlySelected'
          /\ lastEvent'.key \in {"Up", "Down", "Esc", "r"} => NonePending'
          /\ (/\ lastEvent'.key = "Enter"
              /\ lastEvent'.writes # <<>>
              /\ lastEvent'.writes[1].ok) => NonePending'
          /\ lastEvent'.key = "tick"
                => \A idx \in SettingIdx :
                       settings'[idx].pending = settings[idx].pending]_vars

\* C39 witness: a tick went by on the system tab while the USB charging
\* setting, selected, had its preview on "20".
C39_Witness ==
    /\ lastEvent.key = "tick"
    /\ tab = "System"
    /\ ctrl_sel = 7
    /\ settings[7].pending = 2

\* C40: the RgbState has effect_idx < 14, color_idx < 11, dir_idx < 6,
\* brightness <= 100, speed <= 100 and sel < 5, so that the next step of
\* brightness or speed stays inside a u8.
C40_RgbStateInBounds ==
    /\ rgbState.effect_idx \in 0..(NumEffects - 1)
    /\ rgbState.color_idx \in 0..(NumColors - 1)
    /\ rgbState.dir_idx \in 0..(NumDirections - 1)
    /\ rgbState.brightness \in 0..100
    /\ rgbState.speed \in 0..100
    /\ rgbState.sel \in 0..(RGB_PARAM_COUNT - 1)
    /\ rgbState.brightness + 10 < 256
    /\ rgbState.speed + 10 < 256

\* C40 witness: keys took the state to the first effect, the last colour,
\* full brightness, no speed and the last direction, the last row selected.
C40_Witness ==
    rgbState = [effect_idx |-> 0, color_idx |-> NumColors - 1,
                brightness |-> 100, speed |-> 0,
                dir_idx |-> NumDirections - 1,
                sel |-> RGB_PARAM_COUNT - 1]

====
